---------------------------- MODULE Spec2Model ----------------------------
(***************************************************************************)
(* A model of the offer-creation pipeline: the file-backed article number  *)
(* allocator (fields/article_number.py), the packaging and availability    *)
(* math (fields/packaging_math.py) and the runner that ties them together  *)
(* (runners/pipeline.py).                                                  *)
(*                                                                         *)
(* article_number/logic.py repeats fields/article_number.py line for line  *)
(* (without reset) over a state file of its own; what is checked here of   *)
(* the one holds of the other.                                             *)
(***************************************************************************)
EXTENDS Integers, Sequences, FiniteSets, TLC

VARIABLES
    file,       \* content of data/article_number.json
    tmp,        \* content of the sibling data/article_number.tmp
    last,       \* the allocator call that ran last, with its outcome
    run,        \* the successful allocate calls since the last reset
    peeked,     \* what the call before `last` returned, when it was a peek_next
    pc,         \* overlapping invocations of allocate: each one's position
    loc,        \* overlapping invocations of allocate: each one's count and current_next
    hist,       \* overlapping invocations: what happened so far
    input,      \* packaging math: the canonical row as extraction left it
    before,     \* packaging math: the row before the step taken last
    row,        \* packaging math: the row now
    stage,      \* packaging math: the step taken last
    offer,      \* pipeline: the input file, as its suffix and what extraction makes of it
    pf,         \* pipeline: the process_file run that ended last
    written,    \* writer: the spreadsheets the last step wrote, and by which path
    ss,         \* interface: st.session_state
    page,       \* interface: what the last script run showed and did
    ui,         \* interface: the upload and the widgets as the user left them
    ex,         \* extraction: one process_excel_in_chunks call and its conversion
    batch       \* pipeline: one process_batch call

allocVars == <<file, tmp, last, run, peeked, pc, loc, hist>>
mathVars == <<input, before, row, stage>>
pipeVars == <<offer, pf>>
writeVars == <<written>>
appVars == <<ss, page>>
llmVars == <<ex, batch, ui>>
vars == <<allocVars, mathVars, pipeVars, writeVars, appVars, llmVars>>

----------------------------------------------------------------------------
(* Bounds of the model. *)

\* Counter values are drawn from 0..Span and start_next..start_next+Span.
Span == 3
\* The largest count handed to allocate.
MaxCount == 2
\* Numbers the overlapping invocations hand out at most in one behaviour.
MaxReturned == 4
\* Callers that invoke allocate at the same time.
NumCallers == 2
\* The fields of a canonical row are drawn from None and the integers -1..MaxVal.
MaxVal == 2
\* The most products extraction finds in one input file.
MaxRows == 2

----------------------------------------------------------------------------
(* ArticleNumberConfig *)

prefix == "AC"
width == 8
start_next == 1000

----------------------------------------------------------------------------
(* Python and JSON values: a kind and, for the numeric kinds, the number.  *)
(* A bool carries 0 or 1, the number Python computes with.                 *)

PyInt(n) == [k |-> "int", v |-> n]
PyBool(b) == [k |-> "bool", v |-> IF b THEN 1 ELSE 0]
PyFloat == [k |-> "float", v |-> 0]
PyStr == [k |-> "str", v |-> 0]
PyNone == [k |-> "none", v |-> 0]

\* isinstance(x, int): bool is a subclass of int.
isinstance_int(x) == x.k \in {"int", "bool"}

(* The state file: absent, text that is no JSON, JSON that is no object,   *)
(* an object without "next", or an object whose "next" is a JSON value.    *)
Absent == [f |-> "absent", k |-> "none", v |-> 0]
NotJson == [f |-> "notjson", k |-> "none", v |-> 0]
NotObject == [f |-> "notobject", k |-> "none", v |-> 0]
NoNextKey == [f |-> "nokey", k |-> "none", v |-> 0]
WithNext(x) == [f |-> "next", k |-> x.k, v |-> x.v]
Persisted(n) == WithNext(PyInt(n))

CounterValues == (0 .. Span) \cup (start_next .. start_next + Span)

FileContents ==
    {Absent, NotJson, NotObject, NoNextKey}
        \cup {Persisted(n) : n \in CounterValues \cup {-1}}
        \cup {WithNext(x) : x \in {PyBool(TRUE), PyBool(FALSE), PyFloat, PyStr, PyNone}}

----------------------------------------------------------------------------
(* format_article_number: the prefix, then the decimal digits of n padded  *)
(* with zeros on the left to at least `width` digits.                      *)

RECURSIVE Digits(_)
Digits(n) == IF n < 10 THEN <<n>> ELSE Append(Digits(n \div 10), n % 10)

RECURSIVE ZeroPad(_, _)
ZeroPad(ds, w) == IF Len(ds) >= w THEN ds ELSE ZeroPad(<<0>> \o ds, w)

Raised == [ok |-> FALSE, text |-> "", digits |-> <<>>]

format_article_number(n) ==
    IF n < 0 THEN Raised
    ELSE [ok |-> TRUE, text |-> prefix, digits |-> ZeroPad(Digits(n), width)]

----------------------------------------------------------------------------
(* _load_state and _save_state *)

\* The next integer to allocate, or the error the corrupted file raises.
_load_state(content) ==
    IF content.f = "absent" THEN [ok |-> TRUE, next |-> start_next]
    ELSE IF content.f = "notjson" THEN [ok |-> FALSE, next |-> 0]
    ELSE IF content.f \in {"notobject", "nokey"} THEN [ok |-> FALSE, next |-> 0]
    ELSE IF ~isinstance_int(content) \/ content.v < 0 THEN [ok |-> FALSE, next |-> 0]
    ELSE [ok |-> TRUE, next |-> content.v]

\* What _save_state leaves in the state file: json.dumps({"next": next_value}).
_save_state(next_value) == WithNext(next_value)

----------------------------------------------------------------------------
(* allocate, peek_next and reset as functions of the state file's content  *)
(* and the argument: whether the call returns or raises, what it returns,  *)
(* and the content it leaves.                                              *)

\* The range starting one after current_next.
allocated_numbers_skipping_first(current_next, count) ==
    [i \in 1 .. count |-> format_article_number(current_next + i)]

\* range(current_next, current_next + count), each number formatted.
allocated_numbers(current_next, count) ==
    [i \in 1 .. count |-> format_article_number(current_next + (i - 1))]

\* allocate persisting one less than it handed out.
allocate_off_by_one(content, count) ==
    IF ~isinstance_int(count) \/ count.v <= 0
    THEN [ok |-> FALSE, out |-> <<>>, file |-> content]
    ELSE LET st == _load_state(content) IN
         IF ~st.ok
         THEN [ok |-> FALSE, out |-> <<>>, file |-> content]
         ELSE [ok |-> TRUE,
               out |-> allocated_numbers(st.next, count.v),
               file |-> _save_state(PyInt(st.next + count.v - 1))]

\* allocate counting from cfg.start_next instead of the loaded state.
allocate_from_start_next(content, count) ==
    IF ~isinstance_int(count) \/ count.v <= 0
    THEN [ok |-> FALSE, out |-> <<>>, file |-> content]
    ELSE LET st == _load_state(content) IN
         IF ~st.ok
         THEN [ok |-> FALSE, out |-> <<>>, file |-> content]
         ELSE [ok |-> TRUE,
               out |-> allocated_numbers(start_next, count.v),
               file |-> _save_state(PyInt(start_next + count.v))]

\* allocate rejecting negative counts only.
allocate_accepting_zero(content, count) ==
    IF ~isinstance_int(count) \/ count.v < 0
    THEN [ok |-> FALSE, out |-> <<>>, file |-> content]
    ELSE LET st == _load_state(content) IN
         IF ~st.ok
         THEN [ok |-> FALSE, out |-> <<>>, file |-> content]
         ELSE [ok |-> TRUE,
               out |-> allocated_numbers(st.next, count.v),
               file |-> _save_state(PyInt(st.next + count.v))]

allocate(content, count) ==
    IF ~isinstance_int(count) \/ count.v <= 0
    THEN [ok |-> FALSE, out |-> <<>>, file |-> content]
    ELSE LET st == _load_state(content) IN
         IF ~st.ok
         THEN [ok |-> FALSE, out |-> <<>>, file |-> content]
         ELSE [ok |-> TRUE,
               out |-> allocated_numbers(st.next, count.v),
               file |-> _save_state(PyInt(st.next + count.v))]

\* peek_next writing back the state it loaded.
peek_next_persisting(content) ==
    LET st == _load_state(content) IN
    IF ~st.ok
    THEN [ok |-> FALSE, out |-> <<>>, file |-> content]
    ELSE [ok |-> TRUE, out |-> <<format_article_number(st.next)>>,
          file |-> _save_state(PyInt(st.next))]

peek_next(content) ==
    LET st == _load_state(content) IN
    IF ~st.ok
    THEN [ok |-> FALSE, out |-> <<>>, file |-> content]
    ELSE [ok |-> TRUE, out |-> <<format_article_number(st.next)>>, file |-> content]

\* start_value < 0 is the only check: whatever else is given is written as it is.
reset(content, start_value) ==
    IF start_value.v < 0
    THEN [ok |-> FALSE, out |-> <<>>, file |-> content]
    ELSE [ok |-> TRUE, out |-> <<>>, file |-> _save_state(start_value)]

----------------------------------------------------------------------------
(* Numbers of the packaging math. Python computes them as floats; they are *)
(* modelled as fractions n/d in lowest terms with d > 0, so a product or a *)
(* quotient is exact. A field of a row holds None, a number, or one of the *)
(* other values _to_number tells apart.                                    *)

RECURSIVE GCD(_, _)
GCD(a, b) == IF b = 0 THEN a ELSE GCD(b, a % b)

Abs(n) == IF n < 0 THEN -n ELSE n

None == [k |-> "none", n |-> 0, d |-> 1]
Num(n, d) ==
    LET g == GCD(Abs(n), Abs(d))
        sgn == IF d < 0 THEN -1 ELSE 1
    IN  [k |-> "num", n |-> sgn * (n \div g), d |-> sgn * (d \div g)]
Whole(n) == Num(n, 1)
\* A string that reads as the number n/d, a string that reads as none, a bool.
NumStr(n, d) == [Num(n, d) EXCEPT !.k = "numstr"]
Text == [k |-> "text", n |-> 0, d |-> 1]
Bool(b) == [k |-> "bool", n |-> IF b THEN 1 ELSE 0, d |-> 1]

Mul(a, b) == Num(a.n * b.n, a.d * b.d)
Div(a, b) == Num(a.n * b.d, a.d * b.n)

_to_number(value) ==
    IF value.k = "none" THEN None
    ELSE IF value.k = "bool" THEN None
    ELSE IF value.k = "num" THEN value
    ELSE IF value.k = "numstr" THEN [value EXCEPT !.k = "num"]
    ELSE None

_is_valid_positive_number(value) ==
    LET v == _to_number(value) IN v # None /\ v.n > 0

PackagingFields == {"piece_per_case", "case_per_pallet", "pieces_per_pallet"}
AvailabilityFields == {"availability_pieces", "availability_cartons", "availability_pallets"}
MathFields == PackagingFields \cup AvailabilityFields

----------------------------------------------------------------------------
(* complete_packaging_triad, complete_availability, apply_packaging_math   *)
(* and apply_double_stackable. Each assignment of the code is one LET      *)
(* step: a later test reads the row the earlier assignments left, the      *)
(* numbers a, b, c, pieces, cartons, pallets, ppc, ppp are read when the   *)
(* code reads them.                                                        *)

\* complete_packaging_triad computing from any two numbers, positive or not.
complete_packaging_triad_from_any_two(r) ==
    LET a == _to_number(r.piece_per_case)
        b == _to_number(r.case_per_pallet)
        c == _to_number(r.pieces_per_pallet)
        r1 == IF a # None /\ b # None /\ r.pieces_per_pallet = None
              THEN [r EXCEPT !.pieces_per_pallet = Mul(a, b)] ELSE r
        r2 == IF a # None /\ c # None /\ r1.case_per_pallet = None /\ a.n # 0
              THEN [r1 EXCEPT !.case_per_pallet = Div(c, a)] ELSE r1
        r3 == IF b # None /\ c # None /\ r2.piece_per_case = None /\ b.n # 0
              THEN [r2 EXCEPT !.piece_per_case = Div(c, b)] ELSE r2
    IN  r3

\* complete_packaging_triad computing C from A and B whether or not C is given.
complete_packaging_triad_overwriting(r) ==
    LET a == _to_number(r.piece_per_case)
        b == _to_number(r.case_per_pallet)
    IN  IF _is_valid_positive_number(a) /\ _is_valid_positive_number(b)
        THEN [r EXCEPT !.pieces_per_pallet = Mul(a, b)] ELSE r

complete_packaging_triad(r) ==
    LET a == _to_number(r.piece_per_case)
        b == _to_number(r.case_per_pallet)
        c == _to_number(r.pieces_per_pallet)
        r1 == IF /\ _is_valid_positive_number(a) /\ _is_valid_positive_number(b)
                 /\ r.pieces_per_pallet = None
              THEN [r EXCEPT !.pieces_per_pallet = Mul(a, b)] ELSE r
        r2 == IF /\ _is_valid_positive_number(a) /\ _is_valid_positive_number(c)
                 /\ r1.case_per_pallet = None /\ a.n # 0
              THEN [r1 EXCEPT !.case_per_pallet = Div(c, a)] ELSE r1
        r3 == IF /\ _is_valid_positive_number(b) /\ _is_valid_positive_number(c)
                 /\ r2.piece_per_case = None /\ b.n # 0
              THEN [r2 EXCEPT !.piece_per_case = Div(c, b)] ELSE r2
    IN  r3

\* Forward and cross-fill: cartons and pallets from pieces, where absent.
FillFromPieces(r, pieces, ppc, ppp) ==
    IF ~_is_valid_positive_number(pieces) THEN r
    ELSE LET r1 == IF /\ r.availability_cartons = None
                      /\ _is_valid_positive_number(ppc) /\ ppc.n # 0
                   THEN [r EXCEPT !.availability_cartons = Div(pieces, ppc)] ELSE r
             r2 == IF /\ r1.availability_pallets = None
                      /\ _is_valid_positive_number(ppp) /\ ppp.n # 0
                   THEN [r1 EXCEPT !.availability_pallets = Div(pieces, ppp)] ELSE r1
         IN  r2

\* complete_availability trying the pallets path before the cartons path.
complete_availability_pallets_first(r) ==
    LET pieces == _to_number(r.availability_pieces)
        cartons == _to_number(r.availability_cartons)
        pallets == _to_number(r.availability_pallets)
        ppc == _to_number(r.piece_per_case)
        ppp == _to_number(r.pieces_per_pallet)
        r1 == FillFromPieces(r, pieces, ppc, ppp)
        r2 == IF r1.availability_pieces # None THEN r1
              ELSE IF _is_valid_positive_number(pallets) /\ _is_valid_positive_number(ppp)
              THEN [r1 EXCEPT !.availability_pieces = Mul(pallets, ppp)]
              ELSE IF _is_valid_positive_number(cartons) /\ _is_valid_positive_number(ppc)
              THEN [r1 EXCEPT !.availability_pieces = Mul(cartons, ppc)]
              ELSE r1
    IN  FillFromPieces(r2, _to_number(r2.availability_pieces), ppc, ppp)

complete_availability(r) ==
    LET pieces == _to_number(r.availability_pieces)
        cartons == _to_number(r.availability_cartons)
        pallets == _to_number(r.availability_pallets)
        ppc == _to_number(r.piece_per_case)
        ppp == _to_number(r.pieces_per_pallet)
        \* FORWARD
        r1 == FillFromPieces(r, pieces, ppc, ppp)
        \* REVERSE, only if pieces is missing
        r2 == IF r1.availability_pieces # None THEN r1
              ELSE IF _is_valid_positive_number(cartons) /\ _is_valid_positive_number(ppc)
              THEN [r1 EXCEPT !.availability_pieces = Mul(cartons, ppc)]
              ELSE IF _is_valid_positive_number(pallets) /\ _is_valid_positive_number(ppp)
              THEN [r1 EXCEPT !.availability_pieces = Mul(pallets, ppp)]
              ELSE r1
        \* CROSS-FILL
    IN  FillFromPieces(r2, _to_number(r2.availability_pieces), ppc, ppp)

max_iterations == 3

RECURSIVE PackagingMathRounds(_, _)
PackagingMathRounds(r, rounds) ==
    IF rounds = 0 THEN r
    ELSE LET after == complete_availability(complete_packaging_triad(r)) IN
         IF after = r THEN after ELSE PackagingMathRounds(after, rounds - 1)

\* apply_packaging_math as a single round with the two passes the other way round.
apply_packaging_math_one_round_swapped(r) ==
    complete_packaging_triad(complete_availability(r))

apply_packaging_math(r) == PackagingMathRounds(r, max_iterations)

\* apply_double_stackable doubling every number of the row.
apply_double_stackable_all_fields(r) ==
    [f \in DOMAIN r |->
        IF _to_number(r[f]) # None THEN Mul(_to_number(r[f]), Whole(2)) ELSE r[f]]

apply_double_stackable(r) ==
    [f \in DOMAIN r |->
        IF f \in AvailabilityFields /\ _to_number(r[f]) # None
        THEN Mul(_to_number(r[f]), Whole(2))
        ELSE r[f]]

----------------------------------------------------------------------------
(* The department schemas and the mapping of a canonical row to an output  *)
(* row. The mapping functions are a pure projection: every header of the   *)
(* department, the value of the matching canonical field under it, and     *)
(* "Article Number" left unset. The rows of this model carry the six       *)
(* packaging and availability fields and, where the interface needs it, a  *)
(* product description; their other fields are absent, and so are the      *)
(* cells under those headers.                                              *)

FOOD_HEADERS ==
    << "Article Number", "EAN code unit", "Product Description", "Content", "Languages",
       "Piece per case", "Case per pallet", "Pieces per pallet", "BBD",
       "Availability/Cartons", "Availability/Pieces", "Availability/Pallets",
       "Price/Unit (Euro)" >>

HPC_HEADERS ==
    << "Article Number", "EAN code unit", "Product Description", "Content", "Languages",
       "Piece per case", "Case per pallet", "Pieces per pallet",
       "Availability/Cartons", "Availability/Pieces", "Availability/Pallets",
       "Price/Unit (Euro)" >>

HeaderOf ==
    [f \in MathFields \cup {"product_description"} |->
        CASE f = "product_description" -> "Product Description"
          [] f = "piece_per_case" -> "Piece per case"
          [] f = "case_per_pallet" -> "Case per pallet"
          [] f = "pieces_per_pallet" -> "Pieces per pallet"
          [] f = "availability_cartons" -> "Availability/Cartons"
          [] f = "availability_pieces" -> "Availability/Pieces"
          [] f = "availability_pallets" -> "Availability/Pallets"]

Project(r, headers) ==
    [h \in {headers[i] : i \in 1 .. Len(headers)} |->
        IF \E f \in DOMAIN r : HeaderOf[f] = h
        THEN r[CHOOSE f \in DOMAIN r : HeaderOf[f] = h]
        ELSE None]

canonical_to_food_row(r) == Project(r, FOOD_HEADERS)
canonical_to_hpc_row(r) == Project(r, HPC_HEADERS)

\* process_file, step 6
MapRow(r, category) ==
    IF category = "food" THEN canonical_to_food_row(r) ELSE canonical_to_hpc_row(r)

Categories == {"food", "hpc"}

----------------------------------------------------------------------------
(* One canonical row taken through the packaging math. The row is what     *)
(* _dict_to_canonical builds: to_int leaves None or an integer in each of  *)
(* the six fields. The functions of fields/packaging_math.py are applied   *)
(* to it one by one, and process_file's steps 4 and 5 in their order.      *)

Values == {None} \cup {Whole(n) : n \in -1 .. MaxVal}
Rows == [MathFields -> Values]
EmptyRow == [f \in MathFields |-> None]

NoRow ==
    /\ input = EmptyRow
    /\ before = EmptyRow
    /\ row = EmptyRow
    /\ stage = "none"

NoOffer == [suffix |-> ".xlsx", extraction |-> "ok", rows |-> <<>>]
NoProcessFile ==
    [ran |-> FALSE, ok |-> FALSE, failed_at |-> "", category |-> "food",
     double_stackable |-> FALSE, before |-> Absent, calls |-> <<>>, rows |-> <<>>]

Book(path, dept, sheet) == [path |-> path, dept |-> dept, sheet |-> sheet]

\* A pandas DataFrame, or None: its columns and its records in order.
NoFrame == [has |-> FALSE, columns |-> <<>>, rows |-> <<>>]

\* The session state as the initialization block of the script leaves it.
\* None is "" for a name, NoFrame for a table, has = FALSE for a list.
InitialSession ==
    [processed |-> FALSE, output_path |-> "", df |-> NoFrame, selected_df |-> NoFrame,
     row_selected |-> [has |-> FALSE, flags |-> <<>>], product_images |-> {},
     dept_type |-> "", sheet_info |-> <<>>, selected_sheet |-> "",
     file_validated |-> FALSE, last_file_name |-> ""]

NoPage == [ran |-> FALSE, error |-> "", process_enabled |-> FALSE, invoked |-> FALSE,
           before |-> InitialSession]

\* A part of the program that a run does not use.
Unused == [pc |-> "unused"]

NoPipeline ==
    /\ offer = NoOffer
    /\ pf = NoProcessFile
    /\ written = <<>>
    /\ ss = InitialSession
    /\ page = NoPage
    /\ ex = Unused
    /\ batch = Unused
    /\ ui = Unused

----------------------------------------------------------------------------
(* The allocator called by one caller at a time.                           *)

CountInputs ==
    {PyInt(n) : n \in -1 .. MaxCount} \cup {PyBool(TRUE), PyBool(FALSE), PyFloat, PyStr, PyNone}

ResetInputs == {PyInt(n) : n \in CounterValues \cup {-1}} \cup {PyBool(TRUE), PyFloat}

NoCall == [op |-> "none", arg |-> PyNone, ok |-> TRUE, out |-> <<>>, before |-> Absent]
NoPeek == [has |-> FALSE, n |-> 0, ok |-> TRUE, out |-> <<>>]
NoRun == [active |-> FALSE, before |-> Absent, returned |-> <<>>]

\* Whether the call recorded in `last` was a peek_next, and then its result and
\* whether it was the first (n = 1) or a later one (n = 2) of consecutive peeks.
LastPeek ==
    IF last.op = "peek_next"
    THEN [has |-> TRUE, n |-> IF peeked.has THEN 2 ELSE 1, ok |-> last.ok, out |-> last.out]
    ELSE NoPeek

\* The counter stays within the values the model draws it from.
WithinSpan(content) == content.f = "next" /\ content.k = "int" => content.v \in CounterValues \cup {-1}

Callers == 1 .. NumCallers

NoLocals == [count |-> 0, current_next |-> 0]
NoHistory == [start |-> Absent, overlapped |-> FALSE, stolen |-> FALSE, given |-> <<>>]

Idle ==
    /\ pc = [p \in Callers |-> "call"]
    /\ loc = [p \in Callers |-> NoLocals]
    /\ hist = NoHistory
    /\ tmp = Absent

InitSeq ==
    /\ file \in FileContents
    /\ last = NoCall
    /\ run = NoRun
    /\ peeked = NoPeek
    /\ Idle
    /\ NoRow
    /\ NoPipeline

CallAllocate(count) ==
    LET r == allocate(file, count) IN
    /\ WithinSpan(r.file)
    /\ file' = r.file
    /\ last' = [op |-> "allocate", arg |-> count, ok |-> r.ok, out |-> r.out, before |-> file]
    /\ run' = IF ~r.ok THEN run
              ELSE [active |-> TRUE,
                    before |-> IF run.active THEN run.before ELSE file,
                    returned |-> run.returned \o r.out]
    /\ peeked' = LastPeek
    /\ UNCHANGED <<tmp, pc, loc, hist, mathVars, pipeVars, writeVars, appVars, llmVars>>

CallPeekNext ==
    LET r == peek_next(file) IN
    /\ file' = r.file
    /\ last' = [op |-> "peek_next", arg |-> PyNone, ok |-> r.ok, out |-> r.out,
                before |-> IF last.op = "peek_next" THEN last.before ELSE file]
    /\ peeked' = LastPeek
    /\ UNCHANGED <<run, tmp, pc, loc, hist, mathVars, pipeVars, writeVars, appVars, llmVars>>

CallReset(start_value) ==
    LET r == reset(file, start_value) IN
    /\ file' = r.file
    /\ last' = [op |-> "reset", arg |-> start_value, ok |-> r.ok, out |-> r.out, before |-> file]
    /\ run' = IF r.ok THEN NoRun ELSE run
    /\ peeked' = LastPeek
    /\ UNCHANGED <<tmp, pc, loc, hist, mathVars, pipeVars, writeVars, appVars, llmVars>>

NextSeq ==
    \/ \E count \in CountInputs : CallAllocate(count)
    \/ CallPeekNext
    \/ \E start_value \in ResetInputs : CallReset(start_value)

Spec == InitSeq /\ [][NextSeq]_vars

----------------------------------------------------------------------------
(* The packaging math applied to one canonical row.                        *)

InitMath ==
    /\ file = Absent
    /\ last = NoCall
    /\ run = NoRun
    /\ peeked = NoPeek
    /\ Idle
    /\ input \in Rows
    /\ before = input
    /\ row = input
    /\ stage = "canonical"
    /\ NoPipeline

Step(from, to, result) ==
    /\ stage = from
    /\ before' = row
    /\ row' = result
    /\ stage' = to
    /\ UNCHANGED <<input, allocVars, pipeVars, writeVars, appVars, llmVars>>

CallCompletePackagingTriad == Step("canonical", "triad", complete_packaging_triad(row))
CallCompleteAvailability == Step("canonical", "availability", complete_availability(row))
\* process_file, step 4
CallApplyPackagingMath == Step("canonical", "math", apply_packaging_math(row))
\* one more round on the row apply_packaging_math returned
FurtherRound == Step("math", "further", complete_availability(complete_packaging_triad(row)))
\* process_file, step 5, with double_stackable set
CallApplyDoubleStackable == Step("math", "doubled", apply_double_stackable(row))

\* process_file, step 6, without and with double_stackable
CallMap(category) == Step("math", "mapped", MapRow(row, category))
CallMapDoubled(category) == Step("doubled", "mapped_doubled", MapRow(row, category))

NextMath ==
    \/ CallCompletePackagingTriad
    \/ CallCompleteAvailability
    \/ CallApplyPackagingMath
    \/ FurtherRound
    \/ CallApplyDoubleStackable
    \/ \E category \in Categories : CallMap(category)
    \/ \E category \in Categories : CallMapDoubled(category)

SpecMath == InitMath /\ [][NextMath]_vars

----------------------------------------------------------------------------
(* Claims about the allocator called by one caller at a time.              *)

\* The content holds a counter value: an object whose "next" is a number.
HoldsCounter(content) == content.f = "next" /\ content.k = "int"

\* The value a run of allocations starts from: the persisted one, start_next
\* when there is no state file.
StartOf(content) == IF content.f = "absent" THEN start_next ELSE content.v

(* C1: successive successful allocate calls with no reset between them,    *)
(* starting from persisted next = n (start_next when there is no state     *)
(* file), return the formatted numbers n, n+1, ... in increasing order     *)
(* without a gap, call i returning the c_i numbers after those of the      *)
(* calls before it; the persisted value after each call is n plus the sum  *)
(* of the counts so far; and no article number is returned twice.          *)
C1_SequentialAllocation ==
    run.active =>
        LET n == StartOf(run.before)
            total == Len(run.returned)
        IN  /\ run.returned = [i \in 1 .. total |-> format_article_number(n + (i - 1))]
            /\ \A i \in 1 .. total : run.returned[i].ok
            /\ file = Persisted(n + total)
            /\ \A i, j \in 1 .. total : i # j => run.returned[i] # run.returned[j]
            /\ (last.op = "allocate" /\ last.ok) =>
                    /\ Len(last.out) = last.arg.v
                    /\ last.out = SubSeq(run.returned, total - last.arg.v + 1, total)
                    /\ last.before = (IF total = last.arg.v THEN run.before
                                      ELSE Persisted(n + total - last.arg.v))

\* Two allocate calls in a row starting without a state file: 1000 and 1001,
\* then 1002.
C1_Witness ==
    /\ run.active /\ run.before = Absent
    /\ last.op = "allocate" /\ last.ok
    /\ Len(run.returned) = 3 /\ Len(last.out) = 1
    /\ last.out[1].digits = <<0, 0, 0, 0, 1, 0, 0, 2>>
    /\ file = Persisted(1003)

(* C3: peek_next never changes the state file (and does not create it):    *)
(* after any number of consecutive peek_next calls the file is as it was   *)
(* before the first of them, every one of them returns the same, and what  *)
(* they return is the first number the allocate call after them returns.   *)
C3_PeekNextIsPure ==
    /\ last.op = "peek_next" => file = last.before
    /\ (last.op = "peek_next" /\ peeked.has) =>
            last.ok = peeked.ok /\ last.out = peeked.out
    /\ (last.op = "allocate" /\ last.ok /\ peeked.has) =>
            peeked.ok /\ peeked.out = <<last.out[1]>>

\* Two peeks and then an allocation, with no state file before the allocation.
C3_Witness ==
    /\ last.op = "allocate" /\ last.ok
    /\ peeked.n = 2 /\ peeked.ok
    /\ last.before = Absent

(* C4, as claimed: across allocate, peek_next and reset, each persisted     *)
(* `next` is greater than or equal to the one persisted before it.         *)
C4_MonotoneAcrossAllCalls ==
    (HoldsCounter(last.before) /\ HoldsCounter(file)) => file.v >= last.before.v

(* C4, amended: across allocate and peek_next the persisted `next` never   *)
(* decreases; reset persists its argument whatever the counter was.        *)
C4_MonotoneWithoutReset ==
    /\ (last.op \in {"allocate", "peek_next"} /\ HoldsCounter(last.before)) =>
            HoldsCounter(file) /\ file.v >= last.before.v
    /\ (last.op = "reset" /\ last.ok) => file = WithNext(last.arg)

\* An allocation that raised the persisted counter.
C4_Witness ==
    /\ last.op = "allocate" /\ last.ok
    /\ HoldsCounter(last.before) /\ file.v > last.before.v

(* C5: an allocate call whose count is not a positive integer, or whose    *)
(* state file is present but is no JSON, no object, lacks "next", or holds *)
(* a negative or non-integer "next", raises, returns no numbers and leaves *)
(* the state file as it was. A bool count is read as Python reads it, as   *)
(* the integer 0 or 1; a JSON true or false is not an integer.             *)
C5_FailedAllocateChangesNothing ==
    LET count == last.arg
        badCount == ~(isinstance_int(count) /\ count.v > 0)
        badFile ==
            \/ last.before.f \in {"notjson", "notobject", "nokey"}
            \/ last.before.f = "next" /\ (last.before.k # "int" \/ last.before.v < 0)
    IN  (last.op = "allocate" /\ (badCount \/ badFile)) =>
            ~last.ok /\ last.out = <<>> /\ file = last.before

----------------------------------------------------------------------------
(* allocate invoked by several callers at once (interactive sessions, a    *)
(* batch run): nothing locks the state file, so the steps of one           *)
(* invocation interleave with those of another. The steps are the accesses *)
(* to the two shared files: reading the state file, writing the temporary  *)
(* file, and replacing the state file by the temporary one.                *)

InitConc ==
    /\ file \in FileContents
    /\ last = NoCall
    /\ run = NoRun
    /\ peeked = NoPeek
    /\ pc = [p \in Callers |-> "call"]
    /\ loc = [p \in Callers |-> NoLocals]
    /\ hist = [NoHistory EXCEPT !.start = file]
    /\ tmp = Absent
    /\ NoRow
    /\ NoPipeline

\* How many numbers have been handed to callers, counting repeats.
RECURSIVE TotalGiven(_, _)
TotalGiven(given, keys) ==
    IF keys = {} THEN 0
    ELSE LET x == CHOOSE y \in keys : TRUE IN given[x].times + TotalGiven(given, keys \ {x})

\* `given` after the numbers of `out` went to caller p.
Give(given, out, p) ==
    LET new == {out[i] : i \in 1 .. Len(out)} IN
    [x \in (DOMAIN given) \cup new |->
        IF x \notin new THEN given[x]
        ELSE IF x \in DOMAIN given
             THEN [times |-> given[x].times + 1, to |-> given[x].to \cup {p}]
             ELSE [times |-> 1, to |-> {p}]]

InFlight(q) == pc[q] \in {"loaded", "written"}

\* The count check and _load_state. A call that raises is over at once.
Load(p, count) ==
    /\ pc[p] = "call"
    /\ count.v > 0 => TotalGiven(hist.given, DOMAIN hist.given) + count.v <= MaxReturned
    /\ LET st == _load_state(file) IN
       IF ~isinstance_int(count) \/ count.v <= 0 \/ ~st.ok
       THEN UNCHANGED <<pc, loc, hist>>
       ELSE /\ WithinSpan(Persisted(st.next + count.v))
            /\ pc' = [pc EXCEPT ![p] = "loaded"]
            /\ loc' = [loc EXCEPT ![p] = [count |-> count.v, current_next |-> st.next]]
            /\ hist' = [hist EXCEPT !.overlapped = @ \/ \E q \in Callers \ {p} : InFlight(q)]
    /\ UNCHANGED <<file, tmp, last, run, peeked, mathVars, pipeVars, writeVars, appVars, llmVars>>

\* _save_state up to tmp_path.write_text: the temporary file is the same for all.
WriteTmp(p) ==
    /\ pc[p] = "loaded"
    /\ tmp' = _save_state(PyInt(loc[p].current_next + loc[p].count))
    /\ pc' = [pc EXCEPT ![p] = "written"]
    /\ UNCHANGED <<file, last, run, peeked, loc, hist, mathVars, pipeVars, writeVars, appVars, llmVars>>

\* tmp_path.replace(state_path), then the return of the allocated numbers.
ReplaceAndReturn(p) ==
    /\ pc[p] = "written"
    /\ tmp # Absent
    /\ file' = tmp
    /\ tmp' = Absent
    /\ pc' = [pc EXCEPT ![p] = "call"]
    /\ loc' = [loc EXCEPT ![p] = NoLocals]
    /\ hist' = [hist EXCEPT
                  !.given = Give(@, allocated_numbers(loc[p].current_next, loc[p].count), p)]
    /\ UNCHANGED <<last, run, peeked, mathVars, pipeVars, writeVars, appVars, llmVars>>

\* tmp_path.replace(state_path) when another invocation has moved the temporary
\* file away: FileNotFoundError, and the caller gets no numbers.
ReplaceRaises(p) ==
    /\ pc[p] = "written"
    /\ tmp = Absent
    /\ pc' = [pc EXCEPT ![p] = "call"]
    /\ loc' = [loc EXCEPT ![p] = NoLocals]
    /\ hist' = [hist EXCEPT !.stolen = TRUE]
    /\ UNCHANGED <<file, tmp, last, run, peeked, mathVars, pipeVars, writeVars, appVars, llmVars>>

NextConc ==
    \E p \in Callers :
        \/ \E count \in CountInputs : Load(p, count)
        \/ WriteTmp(p)
        \/ ReplaceAndReturn(p)
        \/ ReplaceRaises(p)

SpecConc == InitConc /\ [][NextConc]_vars

\* No article number has been handed out twice.
Unique == \A x \in DOMAIN hist.given : hist.given[x].times = 1

\* Every number from the one the counter started at up to the persisted
\* counter has been handed to a caller.
GapFree ==
    HoldsCounter(file) =>
        \A k \in StartOf(hist.start) .. file.v - 1 :
            format_article_number(k) \in DOMAIN hist.given

Quiescent == \A p \in Callers : pc[p] = "call"

(* C2: allocate is not safe under overlap. As long as no invocation starts *)
(* while another is between its read of the state file and its replace,    *)
(* the numbers handed out are unique and cover the counter's range, and no *)
(* replace fails; with overlap (the witness) the same number goes to both  *)
(* callers and a number below the final persisted counter goes to none.    *)
C2_OnlyOverlapBreaksAllocation ==
    ~hist.overlapped => Unique /\ GapFree /\ ~hist.stolen

\* All invocations are over; one number went to both callers, and a number
\* below the persisted counter went to no caller.
C2_Witness ==
    /\ Quiescent
    /\ HoldsCounter(file) /\ hist.start = Absent
    /\ \E x \in DOMAIN hist.given : hist.given[x].to = Callers
    /\ \E k \in start_next .. file.v - 1 : format_article_number(k) \notin DOMAIN hist.given

----------------------------------------------------------------------------
(* Claims about the packaging math.                                        *)

AfterMathCall == stage \in {"triad", "availability", "math", "further"}

(* C6: apply_packaging_math (and each of its two passes) never changes a   *)
(* field of the six that was not absent on entry, whatever its value:      *)
(* zero, negative, or inconsistent with the derivation. It only fills      *)
(* fields that were absent.                                                *)
C6_GivenFieldsAreKept ==
    AfterMathCall => \A f \in MathFields : input[f] # None => row[f] = input[f]

\* A row with an inconsistent triad (2 x 2 is not 1) and a zero stock of
\* cartons, of which apply_packaging_math filled the pallets.
C6_Witness ==
    /\ stage = "math"
    /\ input.piece_per_case = Whole(2) /\ input.case_per_pallet = Whole(2)
    /\ input.pieces_per_pallet = Whole(1)
    /\ input.availability_cartons = Whole(0) /\ input.availability_pieces = Whole(2)
    /\ input.availability_pallets = None /\ row.availability_pallets = Whole(2)
    /\ row.pieces_per_pallet = Whole(1) /\ row.availability_cartons = Whole(0)

(* C7: apply_packaging_math returns a fixed point: a further               *)
(* complete_packaging_triad pass and a further complete_availability pass  *)
(* leave the row it returned unchanged, and so does applying it again.     *)
C7_MathReturnsFixedPoint ==
    /\ stage = "further" => row = before
    /\ stage = "math" =>
            /\ complete_packaging_triad(row) = row
            /\ complete_availability(row) = row
            /\ apply_packaging_math(row) = row

\* A row whose completion needed the triad first and the availability after it
\* (pallets come from the derived pieces per pallet), run through a further round.
C7_Witness ==
    /\ stage = "further"
    /\ input.pieces_per_pallet = None /\ input.availability_pallets = None
    /\ input.availability_pieces = None
    /\ row.pieces_per_pallet # None /\ row.availability_pallets # None
    /\ row.availability_pieces # None

ValidPair(x, y) == _is_valid_positive_number(x) /\ _is_valid_positive_number(y)

(* C8: complete_availability, pieces absent: with the cartons path         *)
(* available (cartons and piece_per_case valid positive) pieces becomes    *)
(* cartons x piece_per_case, also when the pallets path is available; the  *)
(* pallets path (pallets x pieces_per_pallet) is taken only when the       *)
(* cartons path is not available; with neither, pieces stays absent. With  *)
(* pieces present on entry there is no reverse derivation.                 *)
C8_CartonsBeforePallets ==
    stage = "availability" =>
        LET viaCartons == ValidPair(input.availability_cartons, input.piece_per_case)
            viaPallets == ValidPair(input.availability_pallets, input.pieces_per_pallet)
        IN  IF input.availability_pieces # None
            THEN row.availability_pieces = input.availability_pieces
            ELSE IF viaCartons
            THEN row.availability_pieces = Mul(input.availability_cartons, input.piece_per_case)
            ELSE IF viaPallets
            THEN row.availability_pieces = Mul(input.availability_pallets, input.pieces_per_pallet)
            ELSE row.availability_pieces = None

\* Both paths available and giving different numbers: 2 x 1 by cartons,
\* 2 x 2 by pallets.
C8_Witness ==
    /\ stage = "availability"
    /\ input.availability_pieces = None
    /\ input.availability_cartons = Whole(2) /\ input.piece_per_case = Whole(1)
    /\ input.availability_pallets = Whole(2) /\ input.pieces_per_pallet = Whole(2)
    /\ row.availability_pieces = Whole(2)

\* The row `doubled` holds twice each availability number of `plain`, absent
\* where `plain` is absent, and the packaging of `plain`.
Twice(doubled, plain, name) ==
    /\ \A f \in AvailabilityFields :
            doubled[name[f]] = IF plain[name[f]] = None THEN None
                               ELSE Mul(plain[name[f]], Whole(2))
    /\ \A f \in PackagingFields : doubled[name[f]] = plain[name[f]]

FieldItself == [f \in MathFields |-> f]

(* C9: with double_stackable set, every availability value (pieces,        *)
(* cartons, pallets) of the output row that is not absent is exactly twice *)
(* the value the run produces without it, absent values stay absent and    *)
(* the three packaging fields are the same; the doubling is applied once,  *)
(* to the row the packaging math has completed.                            *)
C9_DoubleStackableDoublesOnce ==
    /\ stage = "doubled" =>
            /\ before = apply_packaging_math(input)
            /\ Twice(row, apply_packaging_math(input), FieldItself)
    /\ stage = "mapped_doubled" =>
            \E category \in Categories :
                /\ row = MapRow(before, category)
                /\ Twice(row, MapRow(apply_packaging_math(input), category), HeaderOf)

\* An output row of a run with double_stackable whose cartons were derived
\* (1 piece in cases of 2: half a carton) and then doubled to 1, with no pallets.
C9_Witness ==
    /\ stage = "mapped_doubled"
    /\ input.availability_pieces = Whole(1) /\ input.piece_per_case = Whole(2)
    /\ input.availability_cartons = None
    /\ row["Availability/Pieces"] = Whole(2)
    /\ row["Availability/Cartons"] = Whole(1)
    /\ row["Availability/Pallets"] = None
    /\ row["Piece per case"] = Whole(2)

----------------------------------------------------------------------------
(* write_rows_to_xlsx: the worksheet it builds, as the title, the header   *)
(* row (column number to label), the data rows (column number to cell),    *)
(* the row of the totals (0 when there is none) and the anchors of the     *)
(* images. Styles, widths and borders are left out.                        *)

_FIXED_HEADER_LABELS ==
    [h \in {"Piece per case", "Case per pallet", "Pieces per pallet",
            "Availability/Cartons", "Availability/Pieces", "Availability/Pallets",
            "Price/Unit (Euro)"} |->
        CASE h = "Piece per case" -> "Piece per\ncase"
          [] h = "Case per pallet" -> "Case per\npallet"
          [] h = "Pieces per pallet" -> "Pieces per\npallet"
          [] h = "Availability/Cartons" -> "Availability /\nCartons"
          [] h = "Availability/Pieces" -> "Availability /\nPieces"
          [] h = "Availability/Pallets" -> "Availability /\nPallets"
          [] h = "Price/Unit (Euro)" -> "Price / Unit\n(Euro)"]

start_col == 2
start_row == 2
images_per_row == 4
col_spacing == 3
row_spacing == 9
image_gap == 5

\* row_data.get(header)
Get(row_data, header) == IF header \in DOMAIN row_data THEN row_data[header] ELSE None

\* header_to_excel_col.get(header), 0 standing for None
header_to_excel_col(headers, header) ==
    IF \E i \in 1 .. Len(headers) : headers[i] = header
    THEN start_col + (CHOOSE i \in 1 .. Len(headers) : headers[i] = header) - 1
    ELSE 0

\* A cell of a data row: =IFERROR(<pieces cell>/<divisor cell>,"") with the
\* two columns it refers to, or the value of the row.
DataCell(headers, row_data, c, col_ppc, col_ppp, col_pieces, col_cartons, col_pallets) ==
    IF col_pieces # 0 /\ col_cartons # 0 /\ col_pallets # 0 /\ col_ppc # 0 /\ col_ppp # 0
       /\ c \in {col_cartons, col_pallets}
    THEN [k |-> "formula", n |-> col_pieces, d |-> IF c = col_cartons THEN col_ppc ELSE col_ppp]
    ELSE Get(row_data, headers[c - start_col + 1])

Sheet(sheet_name, headers, rows, product_images, col_ppc, col_ppp, col_pieces, col_cartons, col_pallets) ==
    [title |-> sheet_name,
     header_row |->
        [c \in start_col .. start_col + Len(headers) - 1 |->
            IF headers[c - start_col + 1] \in DOMAIN _FIXED_HEADER_LABELS
            THEN _FIXED_HEADER_LABELS[headers[c - start_col + 1]]
            ELSE headers[c - start_col + 1]],
     data |->
        [i \in 1 .. Len(rows) |->
            [c \in start_col .. start_col + Len(headers) - 1 |->
                DataCell(headers, rows[i], c, col_ppc, col_ppp, col_pieces, col_cartons, col_pallets)]],
     totals_row |->
        IF Len(rows) > 0 /\ col_cartons # 0 /\ col_pieces # 0 /\ col_pallets # 0
        THEN start_row + Len(rows) + 1
        ELSE 0,
     images |->
        [i \in 1 .. Len(product_images) |->
            IF product_images[i]
            THEN [row |-> start_row + Len(rows)
                          + (IF Len(rows) > 0 /\ col_cartons # 0 /\ col_pieces # 0
                                /\ col_pallets # 0
                             THEN 1 ELSE 0)
                          + image_gap + ((i - 1) \div images_per_row) * row_spacing,
                  col |-> start_col + ((i - 1) % images_per_row) * col_spacing]
            ELSE [row |-> 0, col |-> 0]]]

\* The writer laying out the Food columns whatever headers it is given.
write_rows_to_xlsx_in_row_order(sheet_name, headers, rows, product_images) ==
    Sheet(sheet_name, FOOD_HEADERS, rows, product_images,
          header_to_excel_col(FOOD_HEADERS, "Piece per case"),
          header_to_excel_col(FOOD_HEADERS, "Pieces per pallet"),
          header_to_excel_col(FOOD_HEADERS, "Availability/Pieces"),
          header_to_excel_col(FOOD_HEADERS, "Availability/Cartons"),
          header_to_excel_col(FOOD_HEADERS, "Availability/Pallets"))

write_rows_to_xlsx(sheet_name, headers, rows, product_images) ==
    Sheet(sheet_name, headers, rows, product_images,
          header_to_excel_col(headers, "Piece per case"),
          header_to_excel_col(headers, "Pieces per pallet"),
          header_to_excel_col(headers, "Availability/Pieces"),
          header_to_excel_col(headers, "Availability/Cartons"),
          header_to_excel_col(headers, "Availability/Pallets"))

\* category.upper()
upper(category) == IF category = "food" THEN "FOOD" ELSE IF category = "hpc" THEN "HPC" ELSE category

\* headers = FOOD_HEADERS if dept_type == "food" else HPC_HEADERS
headers_of(category) == IF category = "food" THEN FOOD_HEADERS ELSE HPC_HEADERS

----------------------------------------------------------------------------
(* process_file: one input file through the whole pipeline. The input is   *)
(* its suffix and what reading and extraction make of it: an error, or the *)
(* canonical rows in extraction order. Writing the spreadsheet may fail.   *)

\* The rows of the model hold no description, content or languages: step 3
\* finds nothing to clean, to normalize or to extract and leaves them as they are.
clean_and_normalize_row(r) == r

SupportedSuffixes == {".xlsx", ".xls", ".pdf", ".png", ".jpg", ".jpeg"}

Failed(at, content) ==
    [ok |-> FALSE, failed_at |-> at, file |-> content, calls |-> <<>>, rows |-> <<>>]

\* The article numbers assigned against the order of the rows.
zip_article_numbers_reversed(mapped_rows, article_numbers) ==
    [i \in 1 .. Len(mapped_rows) |->
        [mapped_rows[i] EXCEPT
            !["Article Number"] = article_numbers[Len(mapped_rows) + 1 - i]]]

\* for row, article_no in zip(mapped_rows, article_numbers)
zip_article_numbers(mapped_rows, article_numbers) ==
    [i \in 1 .. Len(mapped_rows) |->
        [mapped_rows[i] EXCEPT !["Article Number"] = article_numbers[i]]]

\* Steps 3 to 6 for one row: clean, packaging math, double stackable, mapping.
process_row(r, category, double_stackable) ==
    MapRow(IF double_stackable
           THEN apply_double_stackable(apply_packaging_math(clean_and_normalize_row(r)))
           ELSE apply_packaging_math(clean_and_normalize_row(r)),
           category)

\* Step 7 after allocate returned or raised, and step 8.
number_and_write(content, mapped_rows, count, a, write_ok) ==
    IF ~a.ok THEN [Failed("allocate", content) EXCEPT !.calls = <<count>>]
    ELSE [ok |-> write_ok, failed_at |-> IF write_ok THEN "" ELSE "write",
          file |-> a.file, calls |-> <<count>>,
          rows |-> zip_article_numbers(mapped_rows, a.out)]

\* article_numbers = allocate(len(mapped_rows))
allocate_and_write(content, mapped_rows, write_ok) ==
    number_and_write(content, mapped_rows, PyInt(Len(mapped_rows)),
                     allocate(content, PyInt(Len(mapped_rows))), write_ok)

\* process_file taking its block of numbers before it reads the input.
process_file_allocating_first(content, off, category, double_stackable, write_ok) ==
    IF off.suffix \notin SupportedSuffixes \/ off.extraction # "ok"
    THEN [Failed(IF off.suffix \notin SupportedSuffixes THEN "dispatch" ELSE "extract",
                 allocate(content, PyInt(1)).file)
            EXCEPT !.calls = <<PyInt(1)>>]
    ELSE allocate_and_write(
            content,
            [i \in 1 .. Len(off.rows) |-> process_row(off.rows[i], category, double_stackable)],
            write_ok)

process_file(content, off, category, double_stackable, write_ok) ==
    IF off.suffix \notin SupportedSuffixes THEN Failed("dispatch", content)
    ELSE IF off.extraction # "ok" THEN Failed("extract", content)
    ELSE allocate_and_write(
            content,
            [i \in 1 .. Len(off.rows) |-> process_row(off.rows[i], category, double_stackable)],
            write_ok)

OfferRows ==
    {[EmptyRow EXCEPT !.piece_per_case = a, !.availability_pieces = b] :
        a \in {None, Whole(2)}, b \in {None, Whole(1)}}

RowLists == UNION {[1 .. k -> OfferRows] : k \in 0 .. MaxRows}

Offers ==
    {[suffix |-> ".txt", extraction |-> "ok", rows |-> <<>>]}
        \cup {[suffix |-> x, extraction |-> "raises", rows |-> <<>>] : x \in {".xlsx", ".pdf"}}
        \cup {[suffix |-> x, extraction |-> "ok", rows |-> rs] :
                 x \in {".xlsx", ".png"}, rs \in RowLists}

InitPipe ==
    /\ file \in FileContents
    /\ last = NoCall
    /\ run = NoRun
    /\ peeked = NoPeek
    /\ Idle
    /\ NoRow
    /\ offer \in Offers
    /\ pf = NoProcessFile
    /\ written = <<>>
    /\ ss = InitialSession
    /\ page = NoPage
    /\ ex = Unused
    /\ batch = Unused
    /\ ui = Unused

ProcessFile(category, double_stackable, write_ok) ==
    \E r \in {process_file(file, offer, category, double_stackable, write_ok)} :
    /\ WithinSpan(r.file)
    /\ file' = r.file
    /\ pf' = [ran |-> TRUE, ok |-> r.ok, failed_at |-> r.failed_at, category |-> category,
              double_stackable |-> double_stackable, before |-> file,
              calls |-> r.calls, rows |-> r.rows]
    /\ written' = IF r.ok
                  THEN <<Book("pipeline", category,
                              write_rows_to_xlsx(upper(category), headers_of(category),
                                                 r.rows, <<>>))>>
                  ELSE <<>>
    /\ UNCHANGED <<offer, tmp, last, run, peeked, pc, loc, hist, mathVars, appVars, llmVars>>

NextPipe ==
    \E category \in Categories, double_stackable \in BOOLEAN, write_ok \in BOOLEAN :
        ProcessFile(category, double_stackable, write_ok)

SpecPipe == InitPipe /\ [][NextPipe]_vars

(* C10: a successful process_file run makes exactly one allocate call,     *)
(* with count equal to the number of mapped rows; output row i, in         *)
(* extraction order, gets the article number formatted from n + i (i from  *)
(* 0), n being the persisted counter before the run; after the run the     *)
(* persisted counter is n plus the number of rows.                         *)
C10_OneBlockInRowOrder ==
    (pf.ran /\ pf.ok) =>
        LET n == StartOf(pf.before)
            rows_in == offer.rows
        IN  /\ pf.calls = <<PyInt(Len(rows_in))>>
            /\ Len(pf.rows) = Len(rows_in)
            /\ \A i \in 1 .. Len(rows_in) :
                    /\ pf.rows[i]["Article Number"] = format_article_number(n + (i - 1))
                    /\ \A f \in PackagingFields :
                            pf.rows[i][HeaderOf[f]] = apply_packaging_math(rows_in[i])[f]
            /\ file = Persisted(n + Len(rows_in))

\* Two different rows processed with the counter at 1001: the first gets
\* AC00001001, the second AC00001002, and the counter is left at 1003.
C10_Witness ==
    /\ pf.ran /\ pf.ok
    /\ pf.before = Persisted(1001)
    /\ Len(pf.rows) = 2
    /\ pf.rows[1]["Piece per case"] = Whole(2) /\ pf.rows[2]["Piece per case"] = None
    /\ pf.rows[1]["Article Number"].digits = <<0, 0, 0, 0, 1, 0, 0, 1>>
    /\ pf.rows[2]["Article Number"].digits = <<0, 0, 0, 0, 1, 0, 0, 2>>
    /\ file = Persisted(1003)

----------------------------------------------------------------------------
(* The interface after the Process button: process_uploaded_file, the tail *)
(* of the button's handler and the results section of the script. Tables   *)
(* are pandas DataFrames; a missing number of a table stays None here.     *)

\* pd.DataFrame(mapped_rows, columns=headers)
DataFrame(rows, columns) ==
    [has |-> TRUE, columns |-> columns,
     rows |-> [i \in 1 .. Len(rows) |-> [h \in {columns[j] : j \in 1 .. Len(columns)} |-> Get(rows[i], h)]]]

\* np.ceil of pd.to_numeric(..., errors="coerce"), as a nullable integer
_force_availability_ints(df) ==
    IF ~df.has \/ Len(df.rows) = 0 THEN df
    ELSE [df EXCEPT !.rows =
            [i \in 1 .. Len(df.rows) |->
                [h \in DOMAIN df.rows[i] |->
                    IF h \in {"Availability/Cartons", "Availability/Pieces", "Availability/Pallets"}
                    THEN IF df.rows[i][h].k = "num"
                         THEN Whole(-((-df.rows[i][h].n) \div df.rows[i][h].d))
                         ELSE None
                    ELSE df.rows[i][h]]]]

RECURSIVE Pick(_, _, _)
Pick(rows, flags, i) ==
    IF i > Len(rows) THEN <<>>
    ELSE (IF flags[i] THEN <<rows[i]>> ELSE <<>>) \o Pick(rows, flags, i + 1)

\* A text of a table is the word n in the spelling d: 1 in lower case, 2 in
\* lower case between blanks, 3 in upper case, 4 in upper case between
\* blanks. The word -1 is the empty text; between blanks it is a blank text.
Str(n, d) == [k |-> "text", n |-> n, d |-> d]

\* str.strip() and str.lower(); a value that is no text is left as it is,
\* str(None) being the text "None", which is none of the words here.
strip(x) == IF x.k = "text" /\ x.d \in {2, 4} THEN [x EXCEPT !.d = x.d - 1] ELSE x
lower(x) == IF x.k = "text" /\ x.n # -1 /\ x.d \in {3, 4} THEN [x EXCEPT !.d = x.d - 2] ELSE x

\* _normalize_text: "" for None, else str(x).strip().lower()
_normalize_text(x) == IF x = None THEN Str(-1, 1) ELSE lower(strip(x))

\* The re-matching trying the description and content key whenever the EAN
\* codes of the selection matched no row.
RematchedCascading(rows, selection) ==
    LET MatchKey(r) == <<_normalize_text(Get(r, "Product Description")),
                         _normalize_text(Get(r, "Content"))>>
        sel_eans == {strip(Get(selection[i], "EAN code unit")) : i \in 1 .. Len(selection)}
                        \ {None, Str(-1, 1)}
        sel_keys == {MatchKey(selection[i]) : i \in 1 .. Len(selection)}
        by_ean(r) == strip(Get(r, "EAN code unit")) \in sel_eans
        by_key(r) == MatchKey(r) \in sel_keys
        df_filtered == IF SelectSeq(rows, by_ean) # <<>> THEN SelectSeq(rows, by_ean)
                       ELSE SelectSeq(rows, by_key)
        n == IF Len(selection) < Len(rows) THEN Len(selection) ELSE Len(rows)
    IN  IF df_filtered = <<>> THEN SubSeq(rows, 1, n) ELSE df_filtered

\* The rows of df that the selection names. sel_eans are the EAN codes of
\* the selection that are not missing, stripped, the empty ones dropped; with
\* one or more of them the rows are matched by their stripped EAN code and
\* by nothing else. Without any, the key is the normalized description and
\* content joined by "||", here the pair of them. A filter that leaves no
\* row gives df.head(len(selection)).
Rematched(rows, selection) ==
    LET MatchKey(r) == <<_normalize_text(Get(r, "Product Description")),
                         _normalize_text(Get(r, "Content"))>>
        sel_eans == {strip(Get(selection[i], "EAN code unit")) : i \in 1 .. Len(selection)}
                        \ {None, Str(-1, 1)}
        sel_keys == {MatchKey(selection[i]) : i \in 1 .. Len(selection)}
        by_ean(r) == strip(Get(r, "EAN code unit")) \in sel_eans
        by_key(r) == MatchKey(r) \in sel_keys
        df_filtered == IF sel_eans # {} THEN SelectSeq(rows, by_ean) ELSE SelectSeq(rows, by_key)
        n == IF Len(selection) < Len(rows) THEN Len(selection) ELSE Len(rows)
    IN  IF df_filtered = <<>> THEN SubSeq(rows, 1, n) ELSE df_filtered

\* process_uploaded_file after process_file has returned or raised.
finish_upload(r, dept_type, product_images, selected_rows_only) ==
    IF ~r.ok
    THEN [success |-> FALSE, output_path |-> "", df |-> NoFrame, error |-> r.failed_at,
          file |-> r.file, written |-> <<>>]
    ELSE IF selected_rows_only.has /\ Len(selected_rows_only.rows) > 0
    THEN [success |-> TRUE, output_path |-> IF dept_type = "food" THEN "selected_FOOD_offer.xlsx"
                          ELSE "selected_HPC_offer.xlsx",
          df |-> DataFrame(Rematched(r.rows, selected_rows_only.rows), headers_of(dept_type)),
          error |-> "", file |-> r.file,
          written |->
            << Book("pipeline", dept_type,
                    write_rows_to_xlsx(upper(dept_type), headers_of(dept_type), r.rows,
                                       product_images)),
               Book("rematch", dept_type,
                    write_rows_to_xlsx(upper(dept_type), headers_of(dept_type),
                                       Rematched(r.rows, selected_rows_only.rows),
                                       product_images)) >>]
    ELSE [success |-> TRUE, output_path |-> IF dept_type = "food" THEN "FOOD_offer.xlsx" ELSE "HPC_offer.xlsx",
          df |-> DataFrame(r.rows, headers_of(dept_type)),
          error |-> "", file |-> r.file,
          written |->
            << Book("pipeline", dept_type,
                    write_rows_to_xlsx(upper(dept_type), headers_of(dept_type), r.rows,
                                       product_images)) >>]

process_uploaded_file(content, uploaded_file, dept_type, double_stackable, product_images, selected_rows_only, write_ok) ==
    finish_upload(process_file(content, uploaded_file, dept_type, double_stackable, write_ok),
                  dept_type, product_images, selected_rows_only)

\* The handler starting the session's results afresh when the call failed.
store_result_clearing(s, res) ==
    IF res.success
    THEN [s EXCEPT !.processed = TRUE,
                   !.output_path = res.output_path,
                   !.df = _force_availability_ints(res.df),
                   !.selected_df = NoFrame,
                   !.product_images = {},
                   !.row_selected = [has |-> FALSE, flags |-> <<>>]]
    ELSE [s EXCEPT !.processed = FALSE,
                   !.output_path = "",
                   !.df = NoFrame,
                   !.selected_df = NoFrame,
                   !.product_images = {},
                   !.row_selected = [has |-> FALSE, flags |-> <<>>]]

\* The handler after the call returned: app.py, "if success: ... else: st.error".
store_result(s, res) ==
    IF res.success
    THEN [s EXCEPT !.processed = TRUE,
                   !.output_path = res.output_path,
                   !.df = _force_availability_ints(res.df),
                   !.selected_df = NoFrame,
                   !.product_images = {},
                   !.row_selected = [has |-> FALSE, flags |-> <<>>]]
    ELSE s

\* render_download_buttons and the with-images branch: the spreadsheets written.
Downloads(dept_type, selected_df, product_images, button) ==
    IF Len(selected_df.rows) = 0 THEN <<>>
    ELSE IF button = "with_images" /\ product_images # {}
    THEN << Book("with_images", dept_type,
                 write_rows_to_xlsx(upper(dept_type), headers_of(dept_type), selected_df.rows,
                                    [i \in 1 .. Len(selected_df.rows) |-> (i - 1) \in product_images])) >>
    ELSE << Book("data_only", dept_type,
                 write_rows_to_xlsx(IF dept_type = "food" THEN "FOOD" ELSE "HPC", headers_of(dept_type),
                                    selected_df.rows, <<>>)) >>

Rendered(s, flags, selected_df, product_images, button) ==
    [ss |-> IF button = "reset" THEN InitialSession
            ELSE [s EXCEPT !.row_selected = [has |-> TRUE, flags |-> flags],
                           !.selected_df = selected_df,
                           !.product_images = product_images],
     written |-> Downloads(s.dept_type, selected_df, product_images, button)]

\* The rows of the selection that get an image uploader, counted from 0:
\* render_product_image_uploader skips a row without description.
WithUploads(s, flags, selected_df, uploads, button) ==
    Rendered(s, flags, selected_df,
             IF Len(selected_df.rows) = 0 THEN {}
             ELSE uploads \cap {i - 1 : i \in {j \in 1 .. Len(selected_df.rows) :
                                    Get(selected_df.rows[j], "Product Description") # None}},
             button)

\* The results section of the script: the table with its Include flags, the
\* selection df[selected_mask].copy().reset_index(drop=True), the image
\* uploaders, the downloads and the reset button.
results_section(s, flags, uploads, button) ==
    IF s.processed /\ s.df.has
    THEN WithUploads(s, flags, _force_availability_ints([s.df EXCEPT !.rows = Pick(s.df.rows, flags, 1)]), uploads, button)
    ELSE [ss |-> s, written |-> <<>>]

\* The rows an uploaded offer is read as: a described product with its case
\* size and pieces, a described product whose pieces come out as half a
\* piece, and a row with nothing in it.
Uploads ==
    LET WholeCaseRow ==
            [f \in MathFields \cup {"product_description"} |->
                CASE f = "product_description" -> Text
                  [] f = "piece_per_case" -> Whole(2)
                  [] f = "availability_pieces" -> Whole(1)
                  [] OTHER -> None]
        HalfPieceRow ==
            [f \in MathFields \cup {"product_description"} |->
                CASE f = "product_description" -> Text
                  [] f = "case_per_pallet" -> Whole(2)
                  [] f = "pieces_per_pallet" -> Whole(1)
                  [] f = "availability_cartons" -> Whole(1)
                  [] OTHER -> None]
        BlankRow == [f \in MathFields \cup {"product_description"} |-> None]
    IN  {[suffix |-> ".xlsx", extraction |-> "raises", rows |-> <<>>]}
            \cup {[suffix |-> ".xlsx", extraction |-> "ok", rows |-> rs] :
                     rs \in {<<>>, <<HalfPieceRow>>, <<WholeCaseRow, HalfPieceRow>>,
                             <<WholeCaseRow, BlankRow>>}}

\* The session starts with a workbook uploaded, validated and its sheet chosen.
InitResults ==
    /\ file = Absent
    /\ last = NoCall
    /\ run = NoRun
    /\ peeked = NoPeek
    /\ Idle
    /\ NoRow
    /\ offer \in Uploads
    /\ pf = NoProcessFile
    /\ written = <<>>
    /\ ss = [InitialSession EXCEPT
                !.sheet_info = [n \in {"Sheet1"} |-> [rows |-> 10, cols |-> 5]],
                !.selected_sheet = "Sheet1",
                !.file_validated = TRUE,
                !.last_file_name = "offer.xlsx"]
    /\ page = NoPage
    /\ ex = Unused
    /\ batch = Unused
    /\ ui = Unused

\* One run of the script from the handler on, its widgets read as given.
ScriptRun(res, s, flags, uploads, button) ==
    \E out \in {results_section(store_result(s, res), flags, uploads, button)} :
        /\ WithinSpan(res.file)
        /\ file' = res.file
        /\ written' = res.written \o out.written
        /\ ss' = out.ss
        /\ page' = [ran |-> TRUE, error |-> res.error, process_enabled |-> TRUE,
                    invoked |-> button = "process", before |-> ss]
        /\ UNCHANGED <<offer, pf, tmp, last, run, peeked, pc, loc, hist, mathVars, llmVars>>

\* What a run without the Process button has in place of a returned call.
NotCalled == [success |-> FALSE, output_path |-> "", df |-> NoFrame, error |-> "",
              file |-> file, written |-> <<>>]

\* Process pressed and process_uploaded_file returning a failure: the other
\* widgets are as the run before left them.
ProcessFails(double_stackable, write_ok) ==
    \E res \in {process_uploaded_file(file, offer, ss.dept_type, double_stackable, <<>>,
                                      NoFrame, write_ok)} :
        /\ ss.dept_type # ""
        /\ ~res.success
        /\ ScriptRun(res, ss, ss.row_selected.flags, ss.product_images, "process")

\* Process pressed and process_uploaded_file returning a table: the editor
\* shows the new table, with the flags it gives back.
ProcessSucceeds(double_stackable) ==
    \E res \in {process_uploaded_file(file, offer, ss.dept_type, double_stackable, <<>>,
                                      NoFrame, TRUE)} :
        /\ ss.dept_type # ""
        /\ res.success
        /\ \E flags \in [1 .. Len(res.df.rows) -> BOOLEAN] :
                ScriptRun(res, ss, flags, ss.product_images, "process")

\* A run after the user changed the department, an Include flag or an image.
WidgetChanged(dept_type) ==
    \E flags \in [1 .. Len(ss.df.rows) -> BOOLEAN], uploads \in SUBSET (0 .. Len(ss.df.rows) - 1) :
        ScriptRun(NotCalled, [ss EXCEPT !.dept_type = dept_type], flags, uploads, "none")

DownloadWithImages ==
    /\ ss.processed
    /\ ss.product_images # {}
    /\ ScriptRun(NotCalled, ss, ss.row_selected.flags, ss.product_images, "with_images")

ResetPressed ==
    /\ ss.processed
    /\ ss.row_selected.has
    /\ ScriptRun(NotCalled, ss, ss.row_selected.flags, ss.product_images, "reset")

\* process_uploaded_file called with the rows to keep, outside the script
\* and before its first run: none given, an empty table, one blank row,
\* three blank rows.
Regenerate(dept_type, double_stackable) ==
    \E selected_rows_only \in
            {NoFrame} \cup {DataFrame([i \in 1 .. k |-> [h \in {} |-> None]], FOOD_HEADERS) :
                                k \in {0, 1, 3}} :
    \E res \in {process_uploaded_file(file, offer, dept_type, double_stackable, <<>>,
                                      selected_rows_only, TRUE)} :
        /\ ~page.ran
        /\ WithinSpan(res.file)
        /\ file' = res.file
        /\ written' = res.written
        /\ UNCHANGED <<offer, pf, ss, page, tmp, last, run, peeked, pc, loc, hist, mathVars,
                       llmVars>>


NextResults ==
    \/ \E double_stackable \in BOOLEAN, write_ok \in BOOLEAN :
            ProcessFails(double_stackable, write_ok)
    \/ \E double_stackable \in BOOLEAN :
            ProcessSucceeds(double_stackable)
    \/ \E dept_type \in Categories :
            WidgetChanged(dept_type)
    \/ DownloadWithImages
    \/ ResetPressed
    \/ \E dept_type \in Categories, double_stackable \in BOOLEAN :
            Regenerate(dept_type, double_stackable)

SpecResults == InitResults /\ [][NextResults]_vars

(* C11: every spreadsheet written for a department, on the pipeline, the   *)
(* re-matching rewrite, the data-only download and the with-images         *)
(* download, has its header cells in row 2 from column B on, one per       *)
(* header of that department's list and in that list's order (13 for Food  *)
(* with BBD ninth, the same 12 without BBD for HPC, seven of them shown on *)
(* two lines); every data row has exactly those columns; an HPC            *)
(* spreadsheet has no BBD column.                                          *)
C11_ColumnsInHeaderOrder ==
    \A k \in 1 .. Len(written) :
        LET b == written[k]
            common_before == << "Article Number", "EAN code unit", "Product Description",
                                "Content", "Languages", "Piece per\ncase", "Case per\npallet",
                                "Pieces per\npallet" >>
            common_after == << "Availability /\nCartons", "Availability /\nPieces",
                               "Availability /\nPallets", "Price / Unit\n(Euro)" >>
            labels == IF b.dept = "food" THEN common_before \o <<"BBD">> \o common_after
                      ELSE common_before \o common_after
        IN  /\ b.path \in {"pipeline", "rematch", "data_only", "with_images"}
            /\ b.dept \in {"food", "hpc"}
            /\ Len(labels) = (IF b.dept = "food" THEN 13 ELSE 12)
            /\ DOMAIN b.sheet.header_row = 2 .. (Len(labels) + 1)
            /\ \A c \in DOMAIN b.sheet.header_row : b.sheet.header_row[c] = labels[c - 1]
            /\ \A i \in 1 .. Len(b.sheet.data) :
                    DOMAIN b.sheet.data[i] = DOMAIN b.sheet.header_row
            /\ b.dept = "hpc" => \A c \in DOMAIN b.sheet.header_row : b.sheet.header_row[c] # "BBD"

\* A table processed as Food, with its BBD column, downloaded after the
\* department was switched to HPC: the download has the twelve HPC columns.
C11_Witness ==
    /\ ss.processed
    /\ ss.df.columns = FOOD_HEADERS
    /\ Len(written) = 1
    /\ written[1].path = "data_only"
    /\ written[1].dept = "hpc"
    /\ Len(written[1].sheet.data) = 2
    /\ DOMAIN written[1].sheet.header_row = 2 .. 13

----------------------------------------------------------------------------
(* Extraction of a spreadsheet: process_excel_in_chunks, the call it makes *)
(* for each chunk with its parse and repair loop, and the conversion of    *)
(* the returned products to canonical rows. What the hosted model answers  *)
(* is an input of every request.                                           *)

MAX_TEXT_CHARS_BEFORE_LLM == 120000
JSON_RETRY_ATTEMPTS == 3

\* Rows read from the sheet are 0 .. MaxSheet, the chunk size 1 .. MaxChunk.
MaxSheet == 5
MaxChunk == 2

to_float(value) ==
    IF value.k = "none" \/ value.k = "bool" THEN None
    ELSE IF value.k = "num" THEN value
    ELSE IF value.k = "numstr" THEN [value EXCEPT !.k = "num"]
    ELSE None

\* Of the fields of a product, ean stands for those copied as they are.
_dict_to_canonical(product, source_row) ==
    [ean |-> product.ean, price_unit_eur |-> to_float(product.price_unit_eur),
     source_row |-> source_row]

\* sanitized_rows[start_idx:end_idx] taking one row more than the chunk size.
chunk_rows_overlapping(total_rows, chunk_size, i) ==
    [first |-> i * chunk_size,
     last |-> (IF i * chunk_size + chunk_size + 1 < total_rows
               THEN i * chunk_size + chunk_size + 1 ELSE total_rows) - 1]

\* sanitized_rows[start_idx:end_idx], rows counted from 0
chunk_rows(total_rows, chunk_size, i) ==
    [first |-> i * chunk_size,
     last |-> (IF i * chunk_size + chunk_size < total_rows
               THEN i * chunk_size + chunk_size ELSE total_rows) - 1]

\* What a request can bring back: the request raising, a message without
\* content, text that is no JSON, JSON, JSON with a trailing comma. The
\* JSON is null, an object with a products list (one product per row of
\* the chunk, all without price, or all priced 1.25), or an object that is
\* itself one product, priced "1,50".
Answers(rows) ==
    LET listed(price) ==
            [k |-> "products",
             products |-> [i \in 1 .. rows.last - rows.first + 1 |->
                              [ean |-> rows.first + i - 1, price_unit_eur |-> price]]]
    IN  {[body |-> b, value |-> [k |-> "scalar", products |-> <<>>]] :
            b \in {"raises", "none", "garbage", "json"}}
        \cup {[body |-> b, value |-> listed(price)] :
                b \in {"json", "trailing_comma"}, price \in {None, Num(5, 4)}}
        \cup {[body |-> "json",
               value |-> [k |-> "object",
                          products |-> <<[ean |-> rows.first,
                                          price_unit_eur |-> NumStr(3, 2)]>>]]}
        \cup {[body |-> "json", value |-> [k |-> "products", products |-> <<>>]]}

\* json.loads of the extracted text, then of the text without trailing
\* commas, then of the text with quotes escaped.
_parse_llm_response(raw_response) ==
    IF raw_response.body = "none" THEN [ok |-> FALSE, value |-> raw_response.value]
    ELSE IF raw_response.body \in {"json", "trailing_comma"}
    THEN [ok |-> TRUE, value |-> raw_response.value]
    ELSE [ok |-> FALSE, value |-> raw_response.value]

InitExtract ==
    /\ file = Absent
    /\ last = NoCall
    /\ run = NoRun
    /\ peeked = NoPeek
    /\ Idle
    /\ NoRow
    /\ offer = NoOffer
    /\ pf = NoProcessFile
    /\ written = <<>>
    /\ ss = InitialSession
    /\ page = NoPage
    /\ batch = Unused
    /\ ui = Unused
    /\ \E total_rows \in 0 .. MaxSheet, chunk_size \in 1 .. MaxChunk, extract_price \in BOOLEAN,
          total_chars \in {MAX_TEXT_CHARS_BEFORE_LLM, MAX_TEXT_CHARS_BEFORE_LLM + 1} :
            ex = [pc |-> "start", total_rows |-> total_rows, chunk_size |-> chunk_size,
                  extract_price |-> extract_price,
                  total_chars |-> IF total_rows = 0 THEN 2 ELSE total_chars,
                  num_chunks |-> 0, i |-> 0, calls |-> <<>>, returns |-> <<>>,
                  all_products |-> <<>>, trace |-> <<>>, prompt |-> "",
                  raw_output |-> [body |-> "none", value |-> [k |-> "scalar", products |-> <<>>]],
                  retry |-> 0, error |-> "", canonical_rows |-> <<>>]

\* process_excel_in_chunks checking the size only on the chunked path.
BeginSizeCheckedWhenChunked ==
    /\ ex.pc = "start"
    /\ ex' = IF ex.total_rows = 0 THEN [ex EXCEPT !.pc = "returned"]
             ELSE IF ex.total_rows > ex.chunk_size /\ ex.total_chars > MAX_TEXT_CHARS_BEFORE_LLM
             THEN [ex EXCEPT !.pc = "raised", !.error = "too large"]
             ELSE [ex EXCEPT !.pc = "chunk",
                             !.num_chunks = IF ex.total_rows <= ex.chunk_size THEN 1
                                            ELSE (ex.total_rows + ex.chunk_size - 1)
                                                    \div ex.chunk_size]
    /\ UNCHANGED <<allocVars, mathVars, pipeVars, writeVars, appVars, batch, ui>>

\* process_excel_in_chunks down to its first request.
Begin ==
    /\ ex.pc = "start"
    /\ ex' = IF ex.total_rows = 0 THEN [ex EXCEPT !.pc = "returned"]
             ELSE IF ex.total_chars > MAX_TEXT_CHARS_BEFORE_LLM
             THEN [ex EXCEPT !.pc = "raised", !.error = "too large"]
             ELSE [ex EXCEPT !.pc = "chunk",
                             !.num_chunks = IF ex.total_rows <= ex.chunk_size THEN 1
                                            ELSE (ex.total_rows + ex.chunk_size - 1)
                                                    \div ex.chunk_size]
    /\ UNCHANGED <<allocVars, mathVars, pipeVars, writeVars, appVars, batch, ui>>

\* _call_llm_extraction_for_chunk entered for the next chunk: the prompt and
\* the request in JSON mode.
Create(answer) ==
    /\ ex.pc = "chunk"
    /\ answer \in Answers(IF ex.total_rows <= ex.chunk_size
                          THEN [first |-> 0, last |-> ex.total_rows - 1]
                          ELSE chunk_rows(ex.total_rows, ex.chunk_size, ex.i))
    /\ ex' = [ex EXCEPT
                !.calls = Append(@, IF ex.total_rows <= ex.chunk_size
                                    THEN [first |-> 0, last |-> ex.total_rows - 1]
                                    ELSE chunk_rows(ex.total_rows, ex.chunk_size, ex.i)),
                !.prompt = IF ex.extract_price THEN "price extraction" ELSE "price disabled",
                !.trace = <<"json_mode">>,
                !.retry = 0,
                !.raw_output = answer,
                !.error = IF answer.body = "none" THEN "empty response" ELSE "",
                !.pc = IF answer.body = "raises" THEN "fallback"
                       ELSE IF answer.body = "none" THEN "raised" ELSE "parse"]
    /\ UNCHANGED <<allocVars, mathVars, pipeVars, writeVars, appVars, batch, ui>>

\* The request without response_format, made when the first one raised.
Fallback(answer) ==
    /\ ex.pc = "fallback"
    /\ answer \in Answers(ex.calls[Len(ex.calls)])
    /\ ex' = [ex EXCEPT
                !.trace = Append(@, "fallback"),
                !.raw_output = answer,
                !.error = IF answer.body = "raises" THEN "request failed"
                          ELSE IF answer.body = "none" THEN "empty response" ELSE "",
                !.pc = IF answer.body \in {"raises", "none"} THEN "raised" ELSE "parse"]
    /\ UNCHANGED <<allocVars, mathVars, pipeVars, writeVars, appVars, batch, ui>>

\* One round of "for retry in range(JSON_RETRY_ATTEMPTS)" down to the return,
\* the raise or the repair request; a returned chunk is merged and the next
\* chunk, if any, is up.
Parse ==
    /\ ex.pc = "parse"
    /\ \E parsed \in {_parse_llm_response(ex.raw_output)} :
        ex' = IF parsed.ok /\ parsed.value.k = "scalar"
              THEN [ex EXCEPT !.trace = Append(@, "parsed"), !.pc = "raised",
                              !.error = "TypeError"]
              ELSE IF parsed.ok
              THEN [ex EXCEPT !.trace = Append(@, "parsed"),
                              !.returns = Append(@, parsed.value.products),
                              !.all_products = @ \o parsed.value.products,
                              !.i = @ + 1,
                              !.pc = IF ex.i + 1 < ex.num_chunks THEN "chunk" ELSE "returned"]
              ELSE IF ex.retry < JSON_RETRY_ATTEMPTS - 1
              THEN [ex EXCEPT !.trace = Append(@, "failed"), !.pc = "repair"]
              ELSE [ex EXCEPT !.trace = Append(@, "failed"), !.pc = "raised",
                              !.error = "ValueError"]
    /\ UNCHANGED <<allocVars, mathVars, pipeVars, writeVars, appVars, batch, ui>>

\* The "fix this JSON" request, its answer taking the place of raw_output.
Repair(answer) ==
    /\ ex.pc = "repair"
    /\ answer \in Answers(ex.calls[Len(ex.calls)])
    /\ ex' = [ex EXCEPT
                !.trace = Append(@, "repair"),
                !.raw_output = answer,
                !.retry = @ + 1,
                !.error = IF answer.body = "raises" THEN "request failed" ELSE "",
                !.pc = IF answer.body = "raises" THEN "raised" ELSE "parse"]
    /\ UNCHANGED <<allocVars, mathVars, pipeVars, writeVars, appVars, batch, ui>>

\* excel_to_canonical after process_excel_in_chunks returned.
Convert ==
    /\ ex.pc = "returned"
    /\ ex' = [ex EXCEPT
                !.canonical_rows = [idx \in 1 .. Len(ex.all_products) |->
                                        _dict_to_canonical(ex.all_products[idx], idx)],
                !.pc = "canonical"]
    /\ UNCHANGED <<allocVars, mathVars, pipeVars, writeVars, appVars, batch, ui>>

NextExtract ==
    \/ Begin
    \/ \E answer \in Answers([first |-> 0, last |-> MaxSheet - 1])
                     \cup UNION {Answers([first |-> a, last |-> b]) :
                                    a \in 0 .. MaxSheet - 1, b \in 0 .. MaxSheet - 1} :
            \/ Create(answer)
            \/ Fallback(answer)
            \/ Repair(answer)
    \/ Parse
    \/ Convert

SpecExtract == InitExtract /\ [][NextExtract]_vars

(* C12: with extract_price False, every canonical row made from the        *)
(* extraction has no price, whatever the model answered.                   *)
C12_NoPriceWhenDisabled ==
    (ex.pc = "canonical" /\ ~ex.extract_price) =>
        /\ ex.prompt \in {"", "price disabled"}
        /\ \A idx \in 1 .. Len(ex.canonical_rows) : ex.canonical_rows[idx].price_unit_eur = None

RECURSIVE Concat(_)
Concat(lists) == IF lists = <<>> THEN <<>> ELSE Head(lists) \o Concat(Tail(lists))

\* The number of requests the sentence of C14 gives for n rows in chunks of s.
Requests(n, s) == IF n = 0 THEN 0 ELSE IF n <= s THEN 1 ELSE (n + s - 1) \div s

(* C14, as it holds: when the serialized rows are within the               *)
(* 120,000-character limit, process_excel_in_chunks calls the extraction   *)
(* of a chunk one call after the other, call k (from 0) holding rows       *)
(* k*s .. min((k+1)*s, n) - 1, and makes no call for n = 0; when every     *)
(* call returned there were 1 call for 1 <= n <= s and ceil(n/s) calls for *)
(* n > s, every row is in exactly one of them, and the result is the       *)
(* concatenation of the calls' results in call order. Beyond the limit it  *)
(* raises without any call, and a call that raises ends it.                *)
C14_ChunksWithinLimit ==
    ex.pc # "unused" =>
        LET n == ex.total_rows
            s == ex.chunk_size
        IN  /\ Len(ex.calls) <= Requests(n, s)
            /\ ex.total_chars > MAX_TEXT_CHARS_BEFORE_LLM => ex.calls = <<>>
            /\ \A j \in 1 .. Len(ex.calls) :
                    /\ ex.calls[j].first = (j - 1) * s
                    /\ ex.calls[j].last = (IF j * s < n THEN j * s ELSE n) - 1
            /\ Len(ex.returns) \in {Len(ex.calls) - 1, Len(ex.calls)}
            /\ ex.pc \in {"returned", "canonical"} =>
                    /\ Len(ex.calls) = Requests(n, s)
                    /\ Len(ex.returns) = Len(ex.calls)
                    /\ \A r \in 0 .. n - 1 :
                            Cardinality({j \in 1 .. Len(ex.calls) :
                                            ex.calls[j].first <= r /\ r <= ex.calls[j].last}) = 1
                    /\ ex.all_products = Concat(ex.returns)

\* Five rows in chunks of two, serialized to exactly 120,000 characters:
\* three calls, the last for row 4 alone, and the priced products of the
\* second call between those of the first and the third.
C14_Witness ==
    /\ ex.pc = "returned"
    /\ ex.total_rows = 5 /\ ex.chunk_size = 2
    /\ ex.total_chars = MAX_TEXT_CHARS_BEFORE_LLM
    /\ Len(ex.calls) = 3
    /\ ex.calls[3] = [first |-> 4, last |-> 4]
    /\ Len(ex.all_products) = 5
    /\ \A idx \in 1 .. 5 : ex.all_products[idx].ean = idx - 1
    /\ ex.all_products[3].price_unit_eur = Num(5, 4)
    /\ ex.all_products[5].price_unit_eur = None

(* C14 as stated: whatever the rows, process_excel_in_chunks that ended    *)
(* without a failed request has made no request for n = 0, one for         *)
(* 1 <= n <= s and ceil(n/s) for n > s.                                    *)
C14_RequestCountForEveryInput ==
    (ex.pc \in {"returned", "canonical", "raised"}
        /\ ex.error \notin {"request failed", "empty response", "TypeError", "ValueError"}) =>
            Len(ex.calls) = Requests(ex.total_rows, ex.chunk_size)

(* C15: within one call for a chunk, a repair request follows a failed     *)
(* parse and nothing else; there are at most 3 parses and 2 repair         *)
(* requests; a parse that succeeds is the last event of the call, which    *)
(* returns its products; the third failed parse makes the call raise.      *)
C15_ParseAndRepairBudget ==
    ex.pc # "unused" =>
        LET t == ex.trace
            at(e) == {j \in 1 .. Len(t) : t[j] = e}
        IN  /\ \A j \in at("repair") : j > 1 /\ t[j - 1] = "failed"
            /\ Cardinality(at("parsed") \cup at("failed")) <= JSON_RETRY_ATTEMPTS
            /\ Cardinality(at("repair")) <= JSON_RETRY_ATTEMPTS - 1
            /\ \A j \in at("parsed") :
                    /\ j = Len(t)
                    /\ ex.pc \in {"chunk", "returned", "canonical"}
                    /\ Len(ex.returns) = Len(ex.calls)
            /\ Cardinality(at("failed")) = JSON_RETRY_ATTEMPTS =>
                    ex.pc = "raised" /\ ex.error = "ValueError"

----------------------------------------------------------------------------
(* process_batch: the supported files of a directory, each taken through   *)
(* process_file in the order the directory lists them.                     *)

\* A directory lists up to MaxFiles entries.
MaxFiles == 3

\* After one file of the loop, with a failure of process_file left to
\* propagate.
after_file_aborting(b, ok, output_path) ==
    [b EXCEPT !.outcomes = Append(@, ok),
              !.output_paths = IF ok THEN Append(@, output_path) ELSE @,
              !.pc = IF ~ok THEN "raised"
                     ELSE IF Len(b.outcomes) + 1 = Len(b.files) THEN "returned" ELSE "loop"]

\* After one file of the loop: the path appended, or the error printed and
\* the loop continued; the list returned after the last file.
after_file(b, ok, output_path) ==
    [b EXCEPT !.outcomes = Append(@, ok),
              !.output_paths = IF ok THEN Append(@, output_path) ELSE @,
              !.pc = IF Len(b.outcomes) + 1 = Len(b.files) THEN "returned" ELSE "loop"]

\* What a directory can hold: a text file, a folder named like a workbook,
\* a workbook whose extraction raises, a PDF read as one product.
InitBatch ==
    /\ file \in {Absent, NotJson}
    /\ last = NoCall
    /\ run = NoRun
    /\ peeked = NoPeek
    /\ Idle
    /\ NoRow
    /\ offer = NoOffer
    /\ pf = NoProcessFile
    /\ written = <<>>
    /\ ss = InitialSession
    /\ page = NoPage
    /\ ex = Unused
    /\ ui = Unused
    /\ \E exists \in BOOLEAN, category \in Categories,
          listing \in UNION {[1 .. k ->
            { [is_file |-> TRUE, offer |-> [suffix |-> ".txt", extraction |-> "ok", rows |-> <<>>]],
              [is_file |-> FALSE, offer |-> [suffix |-> ".xlsx", extraction |-> "ok", rows |-> <<>>]],
              [is_file |-> TRUE,
               offer |-> [suffix |-> ".xlsx", extraction |-> "raises", rows |-> <<>>]],
              [is_file |-> TRUE,
               offer |-> [suffix |-> ".pdf", extraction |-> "ok",
                          rows |-> <<[EmptyRow EXCEPT !.piece_per_case = Whole(2),
                                                      !.availability_pieces = Whole(1)]>>]] }]
                             : k \in 0 .. MaxFiles} :
            /\ ~exists => listing = <<>>
            /\ batch = [pc |-> "start", exists |-> exists, listing |-> listing,
                        category |-> category, files |-> <<>>, outcomes |-> <<>>,
                        output_paths |-> <<>>]

\* process_batch down to its loop: a file is named by its place in the
\* directory listing.
BatchBegin ==
    /\ batch.pc = "start"
    /\ \E files \in {SelectSeq([i \in 1 .. Len(batch.listing) |-> i],
                               LAMBDA i : /\ batch.listing[i].is_file
                                          /\ batch.listing[i].offer.suffix \in SupportedSuffixes)} :
        batch' = [batch EXCEPT !.files = IF batch.exists THEN files ELSE <<>>,
                               !.pc = IF batch.exists /\ files # <<>> THEN "loop"
                                      ELSE "returned"]
    /\ UNCHANGED <<allocVars, mathVars, pipeVars, writeVars, appVars, ex, ui>>

\* One round of "for file in files": process_file, then the append or the
\* except clause.
BatchFile(double_stackable, write_ok) ==
    /\ batch.pc = "loop"
    /\ \E f \in {batch.files[Len(batch.outcomes) + 1]} :
       \E r \in {process_file(file, batch.listing[f].offer, batch.category, double_stackable,
                              write_ok)} :
        /\ WithinSpan(r.file)
        /\ file' = r.file
        /\ offer' = batch.listing[f].offer
        /\ pf' = [ran |-> TRUE, ok |-> r.ok, failed_at |-> r.failed_at,
                  category |-> batch.category, double_stackable |-> double_stackable,
                  before |-> file, calls |-> r.calls, rows |-> r.rows]
        /\ written' = IF r.ok
                      THEN <<Book("pipeline", batch.category,
                                  write_rows_to_xlsx(upper(batch.category),
                                                     headers_of(batch.category), r.rows, <<>>))>>
                      ELSE <<>>
        /\ batch' = after_file(batch, r.ok, <<upper(batch.category), f>>)
    /\ UNCHANGED <<tmp, last, run, peeked, pc, loc, hist, mathVars, appVars, ex, ui>>

NextBatch ==
    \/ BatchBegin
    \/ \E double_stackable \in BOOLEAN, write_ok \in BOOLEAN : BatchFile(double_stackable, write_ok)

SpecBatch == InitBatch /\ [][NextBatch]_vars

(* C13: process_batch never ends by raising because of a file; when it     *)
(* returns it has taken every supported file of the directory through      *)
(* process_file once, in listing order, and its result holds exactly the   *)
(* output paths of the files whose process_file succeeded, in that order;  *)
(* for a directory that does not exist or holds no supported file it       *)
(* returns the empty list without calling process_file.                    *)
C13_BatchIsolatesFailures ==
    batch.pc # "unused" =>
        LET supported == {i \in 1 .. Len(batch.listing) :
                            /\ batch.listing[i].is_file
                            /\ batch.listing[i].offer.suffix
                                    \in {".xlsx", ".xls", ".pdf", ".png", ".jpg", ".jpeg"}}
            done == Len(batch.outcomes)
            good == {j \in 1 .. done : batch.outcomes[j]}
        IN  /\ batch.pc \in {"start", "loop", "returned"}
            /\ done <= Len(batch.files)
            /\ Len(batch.output_paths) = Cardinality(good)
            /\ \A j \in good :
                    batch.output_paths[Cardinality({m \in good : m <= j})]
                        = <<upper(batch.category), batch.files[j]>>
            /\ batch.pc \in {"loop", "returned"} =>
                    /\ {batch.files[j] : j \in 1 .. Len(batch.files)} =
                            (IF batch.exists THEN supported ELSE {})
                    /\ \A j, m \in 1 .. Len(batch.files) : j < m => batch.files[j] < batch.files[m]
            /\ batch.pc = "returned" => done = Len(batch.files)
            /\ (batch.pc = "returned" /\ (~batch.exists \/ supported = {})) =>
                    batch.output_paths = <<>> /\ ~pf.ran

\* A directory of three supported files of which the second fails: the
\* result holds the paths of the first and the third.
C13_Witness ==
    /\ batch.pc = "returned"
    /\ batch.files = <<1, 2, 3>>
    /\ batch.outcomes = <<TRUE, FALSE, TRUE>>
    /\ batch.output_paths = <<<<upper(batch.category), 1>>, <<upper(batch.category), 3>>>>

----------------------------------------------------------------------------
(* The interface from the upload to the Process button: every action of    *)
(* the user reruns the script with the widgets as they then are. The call  *)
(* of process_uploaded_file is made as app.py writes it.                   *)

MAX_FILE_SIZE_MB == 50
MAX_SHEETS == 20
MAX_SHEET_ROWS == 10000
MAX_SHEET_COLS == 100
EXTREME_COLS_LIMIT == 500

\* openpyxl.load_workbook raises on a file that is no workbook.
_validate_excel_file(uploaded_file) ==
    IF uploaded_file.size > MAX_FILE_SIZE_MB * 1024 * 1024
    THEN [is_valid |-> FALSE, error |-> "file size", sheet_info |-> <<>>]
    ELSE IF ~uploaded_file.workbook
    THEN [is_valid |-> FALSE, error |-> "reading Excel file", sheet_info |-> <<>>]
    ELSE IF uploaded_file.total_sheets > MAX_SHEETS
    THEN [is_valid |-> FALSE, error |-> "sheets", sheet_info |-> <<>>]
    ELSE [is_valid |-> TRUE, error |-> "", sheet_info |-> uploaded_file.sheets]

_check_sheet_limits(sheet_info, selected_sheet) ==
    IF selected_sheet \notin DOMAIN sheet_info THEN [is_valid |-> FALSE, error |-> "not found"]
    ELSE IF sheet_info[selected_sheet].cols > EXTREME_COLS_LIMIT
    THEN [is_valid |-> FALSE, error |-> "too wide"]
    ELSE IF sheet_info[selected_sheet].rows > MAX_SHEET_ROWS
    THEN [is_valid |-> FALSE, error |-> "rows"]
    ELSE IF sheet_info[selected_sheet].cols > MAX_SHEET_COLS
    THEN [is_valid |-> FALSE, error |-> "columns"]
    ELSE [is_valid |-> TRUE, error |-> ""]

\* The validation block: the session after it, and whether the run stops.
validation_block(s, uploaded_file) ==
    IF ~s.file_validated \/ s.last_file_name # uploaded_file.name
    THEN IF ~_validate_excel_file(uploaded_file).is_valid
         THEN [stop |-> TRUE, error |-> _validate_excel_file(uploaded_file).error, ss |-> s]
         ELSE [stop |-> FALSE, error |-> "",
               ss |-> [s EXCEPT !.sheet_info = _validate_excel_file(uploaded_file).sheet_info,
                                !.file_validated = TRUE,
                                !.last_file_name = uploaded_file.name,
                                !.selected_sheet = ""]]
    ELSE [stop |-> FALSE, error |-> "", ss |-> s]

\* The sheet selection: selected_label is the sheet the selectbox shows, ""
\* for none; the selectbox is there when sheet_info is not empty.
sheet_selection(s, selected_label) ==
    IF DOMAIN s.sheet_info = {} \/ selected_label = ""
    THEN [stop |-> FALSE, error |-> "", ss |-> s]
    ELSE [stop |-> ~_check_sheet_limits(s.sheet_info, selected_label).is_valid,
          error |-> _check_sheet_limits(s.sheet_info, selected_label).error,
          ss |-> [s EXCEPT !.selected_sheet = selected_label]]

\* The call of the handler against the signature of process_uploaded_file:
\* a keyword that is no parameter raises TypeError before the body runs.
process_button_call ==
    IF {"uploaded_file", "dept_type", "double_stackable", "extract_price", "product_images",
        "selected_sheet"}
         \subseteq {"uploaded_file", "dept_type", "double_stackable", "extract_price",
                    "product_images", "selected_rows_only"}
    THEN "called" ELSE "TypeError"

\* The process button: whether it is enabled, and the handler when pressed.
process_button(v, pressed) ==
    [ss |-> v.ss,
     stop |-> v.stop,
     error |-> IF v.stop THEN v.error
               ELSE IF pressed /\ v.ss.selected_sheet # "" /\ v.ss.file_validated
                       /\ process_button_call = "TypeError"
               THEN "TypeError" ELSE "",
     process_enabled |-> ~v.stop /\ v.ss.selected_sheet # "" /\ v.ss.file_validated,
     invoked |-> ~v.stop /\ pressed /\ v.ss.selected_sheet # "" /\ v.ss.file_validated]

\* The uploader empty, and the files a user has at hand: a workbook with a
\* small and a long sheet,
\* another workbook of the same name whose sheet Small is the long one, a
\* workbook of exactly 50 MB with wide sheets and one at the limits, a PDF,
\* a workbook over 50 MB, a workbook of 21 sheets.
Files ==
    LET small == [rows |-> 10, cols |-> 5]
        long == [rows |-> MAX_SHEET_ROWS + 1, cols |-> 5]
        two(a, b) == [n \in {"Small", "Long"} |-> IF n = "Small" THEN a ELSE b]
        wide == [n \in {"Wide", "Broad", "Edge"} |->
                    IF n = "Wide" THEN [rows |-> 10, cols |-> EXTREME_COLS_LIMIT + 1]
                    ELSE IF n = "Broad" THEN [rows |-> 10, cols |-> MAX_SHEET_COLS + 1]
                    ELSE [rows |-> MAX_SHEET_ROWS, cols |-> MAX_SHEET_COLS]]
        f(id, name, workbook, size, total_sheets, sheets) ==
            [id |-> id, name |-> name, workbook |-> workbook, size |-> size,
             total_sheets |-> total_sheets, sheets |-> sheets]
    IN  { f(0, "", FALSE, 0, 0, <<>>),
          f(1, "offer.xlsx", TRUE, 1, 2, two(small, long)),
          f(2, "offer.xlsx", TRUE, 1, 2, two(long, small)),
          f(3, "wide.xlsx", TRUE, MAX_FILE_SIZE_MB * 1024 * 1024, 3, wide),
          f(4, "offer.pdf", FALSE, 1, 0, <<>>),
          f(5, "big.xlsx", TRUE, MAX_FILE_SIZE_MB * 1024 * 1024 + 1, 1, two(small, small)),
          f(6, "many.xlsx", TRUE, 1, MAX_SHEETS + 1, two(small, small)) }

InitApp ==
    /\ file = Absent
    /\ last = NoCall
    /\ run = NoRun
    /\ peeked = NoPeek
    /\ Idle
    /\ NoRow
    /\ offer = NoOffer
    /\ pf = NoProcessFile
    /\ written = <<>>
    /\ ss = InitialSession
    /\ page = NoPage
    /\ ex = Unused
    /\ batch = Unused
    /\ ui \in {[pc |-> "app", file |-> f, selectbox |-> "", read |-> ""] :
                    f \in {g \in Files : g.id = 0}}

\* One run of the script with uploaded_file and the selectbox as given:
\* without a file it ends after the department selector. A selectbox the
\* run does not reach, or whose sheets are no longer those it showed,
\* starts empty again.
Rerun(uploaded_file, selected_label, pressed) ==
    \E v \in {IF uploaded_file.id = 0
               THEN [stop |-> TRUE, error |-> "", ss |-> [ss EXCEPT !.dept_type = "food"]]
               ELSE validation_block([ss EXCEPT !.dept_type = "food"], uploaded_file)} :
    \E label \in {IF selected_label \in DOMAIN v.ss.sheet_info
                     /\ v.ss.sheet_info = ss.sheet_info
                  THEN selected_label ELSE ""} :
    \E r \in {process_button(IF v.stop THEN v ELSE sheet_selection(v.ss, label), pressed)} :
        /\ ss' = r.ss
        /\ page' = [ran |-> TRUE, error |-> r.error, process_enabled |-> r.process_enabled,
                    invoked |-> r.invoked, before |-> ss]
        /\ ui' = [pc |-> "app", file |-> uploaded_file,
                  selectbox |-> IF v.stop THEN "" ELSE label,
                  read |-> ""]
        /\ UNCHANGED <<allocVars, mathVars, pipeVars, writeVars, ex, batch>>

\* The user puts a file into the uploader, in place of the one there, or
\* takes the file out.
Upload(uploaded_file) ==
    /\ uploaded_file # ui.file
    /\ Rerun(uploaded_file, ui.selectbox, FALSE)

SelectSheet(sheet) ==
    /\ page.ran
    /\ sheet \in DOMAIN ss.sheet_info
    /\ ui.file.id # 0
    /\ page.error \notin {"file size", "reading Excel file", "sheets"}
    /\ sheet # ui.selectbox
    /\ Rerun(ui.file, sheet, FALSE)

ClearSheet ==
    /\ ui.selectbox # ""
    /\ Rerun(ui.file, "", FALSE)

PressProcess ==
    /\ page.process_enabled
    /\ Rerun(ui.file, ui.selectbox, TRUE)

NextApp ==
    \/ \E uploaded_file \in Files : Upload(uploaded_file)
    \/ \E sheet \in {"Small", "Long", "Wide", "Broad", "Edge"} : SelectSheet(sheet)
    \/ ClearSheet
    \/ PressProcess

SpecApp == InitApp /\ [][NextApp]_vars

(* C16: when Process is pressed with a worksheet selected, the pipeline    *)
(* runs and the rows it extracts are those of the selected worksheet.      *)
C16_SelectedSheetIsRead ==
    (ui.pc = "app" /\ page.invoked) =>
        /\ page.error = ""
        /\ ui.read = ss.selected_sheet

(* C17: an uploaded file that is no spreadsheet is not rejected by the     *)
(* validation of the workbook.                                             *)
C17_NonSpreadsheetSkipsValidation ==
    (ui.pc = "app" /\ page.ran /\ ui.file.name = "offer.pdf") => page.error = ""

(* C18: whenever the Process button is enabled or its handler runs, the    *)
(* sheet held in session state as selected is a sheet of the file now in   *)
(* the uploader, with at most 10,000 rows and at most 100 columns.         *)
C18_NeverEnabledOverLimits ==
    (ui.pc = "app" /\ (page.process_enabled \/ page.invoked)) =>
        /\ ss.selected_sheet \in DOMAIN ui.file.sheets
        /\ ui.file.sheets[ss.selected_sheet].rows <= MAX_SHEET_ROWS
        /\ ui.file.sheets[ss.selected_sheet].cols <= MAX_SHEET_COLS

----------------------------------------------------------------------------
(* The handler and the results section once more (SpecResults).            *)

C20_WrittenPiecesAreThePipelineValues ==
    (ui.pc = "unused" /\ page.invoked /\ page.error = "" /\ Len(written) = 2
        /\ \A i \in 1 .. Len(ss.row_selected.flags) : ss.row_selected.flags[i]) =>
            /\ written[1].path = "pipeline"
            /\ written[2].path = "data_only"
            /\ Len(written[2].sheet.data) = Len(written[1].sheet.data)
            /\ \A i \in 1 .. Len(written[1].sheet.data) :
                    written[2].sheet.data[i][header_to_excel_col(headers_of(ss.dept_type),
                                                                "Availability/Pieces")]
                        = written[1].sheet.data[i][header_to_excel_col(headers_of(ss.dept_type),
                                                                      "Availability/Pieces")]

----------------------------------------------------------------------------
(* The size ceiling of process_excel_in_chunks (SpecExtract).              *)

(* C24: when the serialized rows are longer than 120,000 characters,       *)
(* process_excel_in_chunks raises before any request is made and returns   *)
(* no product, whether the rows fit one chunk or not; at or below 120,000  *)
(* characters the size check is never what fails.                          *)
C24_SizeCeilingBeforeAnyRequest ==
    (ex.pc \notin {"unused", "start"}) =>
        /\ ex.total_chars > MAX_TEXT_CHARS_BEFORE_LLM =>
                /\ ex.pc = "raised"
                /\ ex.error = "too large"
                /\ ex.calls = <<>>
                /\ ex.trace = <<>>
                /\ ex.all_products = <<>>
                /\ ex.canonical_rows = <<>>
        /\ ex.total_chars <= MAX_TEXT_CHARS_BEFORE_LLM => ex.error # "too large"

\* One row, which fits a chunk of two, serialized to 120,001 characters.
C24_Witness ==
    /\ ex.pc = "raised"
    /\ ex.total_rows = 1
    /\ ex.chunk_size = 2
    /\ ex.total_chars = MAX_TEXT_CHARS_BEFORE_LLM + 1
    /\ ex.error = "too large"
    /\ ex.calls = <<>>

----------------------------------------------------------------------------
(* The packaging triad over a whole run (SpecMath).                        *)

(* C25: after complete_packaging_triad, after apply_packaging_math with    *)
(* all its rounds and after a further round, at most one of                *)
(* piece_per_case, case_per_pallet, pieces_per_pallet differs from the row *)
(* on entry; the one that differs was absent on entry and the other two    *)
(* were valid positive numbers on entry; with fewer than two valid         *)
(* positive values on entry none differs.                                  *)
C25_AtMostOneOfTheTriadComputed ==
    (stage \in {"triad", "availability", "math", "further", "doubled"}) =>
        /\ Cardinality({f \in PackagingFields : row[f] # input[f]}) <= 1
        /\ \A f \in PackagingFields :
                row[f] # input[f] =>
                    /\ input[f] = None
                    /\ \A g \in PackagingFields \ {f} : _is_valid_positive_number(input[g])
        /\ Cardinality({f \in PackagingFields : _is_valid_positive_number(input[f])}) < 2 =>
                \A f \in PackagingFields : row[f] = input[f]

\* Two cases per pallet and one piece per pallet given: apply_packaging_math
\* computed half a piece per case and left the other two as they were.
C25_Witness ==
    /\ stage = "math"
    /\ input.piece_per_case = None
    /\ input.case_per_pallet = Whole(2)
    /\ input.pieces_per_pallet = Whole(1)
    /\ row.piece_per_case = Num(1, 2)
    /\ row.case_per_pallet = Whole(2)
    /\ row.pieces_per_pallet = Whole(1)

----------------------------------------------------------------------------
(* process_file on a workbook, its extraction made chunk by chunk: the     *)
(* requests of process_excel_in_chunks, then the steps after extraction.   *)

InitWhole ==
    /\ file \in {Absent, Persisted(start_next + 1)}
    /\ last = NoCall
    /\ run = NoRun
    /\ peeked = NoPeek
    /\ Idle
    /\ NoRow
    /\ offer = NoOffer
    /\ pf = NoProcessFile
    /\ written = <<>>
    /\ ss = InitialSession
    /\ page = NoPage
    /\ batch = Unused
    /\ ui = Unused
    /\ \E total_rows \in 0 .. MaxSheet - 2, chunk_size \in 1 .. MaxChunk,
          total_chars \in {MAX_TEXT_CHARS_BEFORE_LLM, MAX_TEXT_CHARS_BEFORE_LLM + 1} :
            ex = [pc |-> "start", total_rows |-> total_rows, chunk_size |-> chunk_size,
                  extract_price |-> FALSE,
                  total_chars |-> IF total_rows = 0 THEN 2 ELSE total_chars,
                  num_chunks |-> 0, i |-> 0, calls |-> <<>>, returns |-> <<>>,
                  all_products |-> <<>>, trace |-> <<>>, prompt |-> "",
                  raw_output |-> [body |-> "none", value |-> [k |-> "scalar", products |-> <<>>]],
                  retry |-> 0, error |-> "", canonical_rows |-> <<>>]

\* excel_to_canonical returning its canonical rows to process_file, or
\* raising what process_excel_in_chunks raised; the products carry none of
\* the packaging numbers.
Extracted ==
    /\ ex.pc \in {"raised", "canonical"}
    /\ offer' = [suffix |-> ".xlsx",
                 extraction |-> IF ex.pc = "raised" THEN "raises" ELSE "ok",
                 rows |-> [i \in 1 .. Len(ex.canonical_rows) |-> EmptyRow]]
    /\ ex' = [ex EXCEPT !.pc = IF ex.pc = "raised" THEN "extract_raised" ELSE "extracted"]
    /\ UNCHANGED <<pf, allocVars, mathVars, writeVars, appVars, batch, ui>>

NextWhole ==
    \/ NextExtract
    \/ Extracted
    \/ /\ ex.pc \in {"extract_raised", "extracted"}
       /\ ~pf.ran
       /\ NextPipe

SpecWhole == InitWhole /\ [][NextWhole]_vars

(* C28: a process_file run that fails before the allocation step, in the   *)
(* dispatch or in the extraction, a chunk failing after earlier chunks     *)
(* returned included, leaves the persisted counter as it was, makes no     *)
(* allocate call, writes no spreadsheet and returns no rows.               *)
C28_FailureBeforeAllocationConsumesNothing ==
    /\ (pf.ran /\ ex.pc = "extract_raised") => ~pf.ok /\ pf.failed_at = "extract"
    /\ (pf.ran /\ ~pf.ok /\ pf.failed_at \in {"dispatch", "extract"}) =>
            /\ file = pf.before
            /\ pf.calls = <<>>
            /\ pf.rows = <<>>
            /\ written = <<>>

\* Three rows in chunks of two: the first chunk returned its two products,
\* the request for the second raised twice; the counter still holds 1001.
C28_Witness ==
    /\ pf.ran /\ ~pf.ok
    /\ ex.pc = "extract_raised"
    /\ ex.total_rows = 3 /\ ex.chunk_size = 2
    /\ Len(ex.returns) = 1 /\ Len(ex.returns[1]) = 2
    /\ ex.error = "request failed"
    /\ pf.before = Persisted(start_next + 1)
    /\ file = Persisted(start_next + 1)
    /\ written = <<>>

(* C29: when the extraction yields no product, from a sheet without data   *)
(* rows or from answers whose products lists are empty, process_file makes *)
(* one allocate call with count 0, which is rejected: the run fails at the *)
(* allocation step, the counter is left as it was and no spreadsheet is    *)
(* written.                                                                *)
C29_NoProductsFailsAtAllocation ==
    (pf.ran /\ ex.pc = "extracted" /\ ex.all_products = <<>>) =>
        /\ ~pf.ok
        /\ pf.failed_at = "allocate"
        /\ pf.calls = <<PyInt(0)>>
        /\ pf.rows = <<>>
        /\ file = pf.before
        /\ written = <<>>

\* Two rows sent in one request, answered with an empty products list.
C29_Witness ==
    /\ pf.ran /\ ~pf.ok
    /\ ex.pc = "extracted"
    /\ ex.total_rows = 2 /\ ex.chunk_size = 2
    /\ Len(ex.calls) = 1
    /\ ex.returns = << <<>> >>
    /\ pf.failed_at = "allocate"
    /\ pf.before = Absent
    /\ file = Absent

----------------------------------------------------------------------------
(* The functions of the pipeline and of the interface taken on their own:  *)
(* each starts from one input and is applied to it once.                   *)

\* The texts of contents and descriptions are sequences of tokens: a number
\* (its whole part i, its separator w, one of "", "." and ",", and one
\* decimal digit f), a word (w in capitals, i = 1 when it is written in lower
\* case) or a run of i blanks. A number and a word may touch, as in "110G"
\* and "CA10". NoneText is None.
Number(i, sep, f) == [t |-> "num", w |-> sep, i |-> i, f |-> f]
Word(w, low) == [t |-> "word", w |-> w, i |-> low, f |-> 0]
Blank(n) == [t |-> "sp", w |-> "", i |-> n, f |-> 0]
NoneText == <<[t |-> "none", w |-> "", i |-> 0, f |-> 0]>>

\* str.upper()
to_upper(s) == [j \in 1 .. Len(s) |-> IF s[j].t = "word" THEN [s[j] EXCEPT !.i = 0] ELSE s[j]]

\* Runs of blanks that touch are one run.
RECURSIVE joined(_)
joined(s) ==
    IF Len(s) < 2 THEN s
    ELSE IF s[1].t = "sp" /\ s[2].t = "sp"
    THEN joined(<<Blank(s[1].i + s[2].i)>> \o SubSeq(s, 3, Len(s)))
    ELSE <<s[1]>> \o joined(Tail(s))

\* str.strip()
stripped(s) ==
    SubSeq(s, IF s # <<>> /\ s[1].t = "sp" THEN 2 ELSE 1,
              IF s # <<>> /\ s[Len(s)].t = "sp" THEN Len(s) - 1 ELSE Len(s))

\* \b before and after the token j: digits and letters are word characters,
\* so the boundary is there when no number or word touches the token.
StartsAtBoundary(s, j) == j = 1 \/ s[j - 1].t = "sp"
EndsAtBoundary(s, j) == j = Len(s) \/ s[j + 1].t = "sp"

\* Where "\s*(?:units)\b" ends after the token j, 0 when it does not match.
UnitEnd(s, j, units) ==
    IF j + 1 <= Len(s) /\ s[j + 1].t = "word" /\ s[j + 1].w \in units /\ EndsAtBoundary(s, j + 1)
    THEN j + 1
    ELSE IF /\ j + 2 <= Len(s) /\ s[j + 1].t = "sp" /\ s[j + 2].t = "word"
            /\ s[j + 2].w \in units /\ EndsAtBoundary(s, j + 2)
    THEN j + 2
    ELSE 0

\* re.sub(r"(\d+(?:[.,]\d+)?)\s*UNIT\b", r"\1 unit", s) from the token j on,
\* with \b in front of the number when bounded.
RECURSIVE re_sub_unit(_, _, _, _, _)
re_sub_unit(s, j, units, unit, bounded) ==
    IF j > Len(s) THEN <<>>
    ELSE IF s[j].t = "num" /\ (bounded => StartsAtBoundary(s, j)) /\ UnitEnd(s, j, units) # 0
    THEN <<s[j], Blank(1), Word(unit, 0)>>
            \o re_sub_unit(s, UnitEnd(s, j, units) + 1, units, unit, bounded)
    ELSE <<s[j]>> \o re_sub_unit(s, j + 1, units, unit, bounded)

\* _normalize_number_str: the comma read as a period, ".0" dropped.
_normalize_number_str(num) ==
    IF num.w = "" \/ num.f = 0 THEN Number(num.i, "", 0) ELSE Number(num.i, ".", num.f)

\* normalize_content from the search for number, blanks and unit on: in up
\* the units are mapped already. The first number followed by blanks and a
\* word is taken, else the first followed by a word with or without blanks,
\* else up is returned as it is; a unit outside _ALLOWED_UNITS is mapped
\* when it is one of nine spellings and kept otherwise.
normalize_content_found(up) ==
    LET spaced == {j \in 1 .. Len(up) - 2 :
                        /\ up[j].t = "num" /\ up[j + 1].t = "sp" /\ up[j + 2].t = "word"
                        /\ EndsAtBoundary(up, j + 2)}
        loose == {j \in 1 .. Len(up) - 1 :
                        /\ up[j].t = "num" /\ up[j + 1].t = "word" /\ EndsAtBoundary(up, j + 1)}
        m == spaced \cup (IF spaced = {} THEN loose ELSE {})
    IN  IF m = {} THEN up
        ELSE LET j == CHOOSE a \in m : \A b \in m : a <= b
                 unit == IF up[j + 1].t = "word" THEN up[j + 1].w ELSE up[j + 2].w
             IN  << _normalize_number_str(up[j]), Blank(1),
                    Word(CASE unit \in {"GR", "KG", "ML", "L"} -> unit
                           [] unit \in {"G", "GRAM", "GRAMS"} -> "GR"
                           [] unit \in {"K", "KILO", "KILOS"} -> "KG"
                           [] unit \in {"LTR", "LITRE", "LITER"} -> "L"
                           [] OTHER -> unit, 0) >>

\* normalize_content: None for None and for a blank value; else the value in
\* capitals, its eleven substitutions in their order, and the search.
normalize_content(value) ==
    IF value = NoneText \/ stripped(value) = <<>> THEN NoneText
    ELSE normalize_content_found(
            re_sub_unit(re_sub_unit(re_sub_unit(re_sub_unit(re_sub_unit(re_sub_unit(
            re_sub_unit(re_sub_unit(re_sub_unit(re_sub_unit(re_sub_unit(
                stripped(to_upper(stripped(value))),
                1, {"G"}, "GR", TRUE), 1, {"K"}, "KG", TRUE), 1, {"GRAM"}, "GR", FALSE),
                1, {"GRAMS"}, "GR", FALSE), 1, {"GR"}, "GR", FALSE), 1, {"KG"}, "KG", FALSE),
                1, {"ML"}, "ML", FALSE), 1, {"LTR"}, "L", FALSE), 1, {"LITRE"}, "L", FALSE),
                1, {"LITER"}, "L", FALSE), 1, {"L"}, "L", FALSE))

\* extract_content_from_description: the first number that starts at a word
\* boundary and is followed by one of GR, KG, ML, L, G, K, as "<number> <UNIT>".
\* The search is made in description.upper(); w is the word in capitals.
extract_content_from_description(description) ==
    LET m == {j \in 1 .. Len(description) :
                    /\ description[j].t = "num" /\ StartsAtBoundary(description, j)
                    /\ UnitEnd(description, j, {"GR", "KG", "ML", "L", "G", "K"}) # 0}
    IN  IF description = NoneText \/ description = <<>> \/ m = {} THEN NoneText
        ELSE LET j == CHOOSE a \in m : \A b \in m : a <= b
                 unit == description[UnitEnd(description, j, {"GR", "KG", "ML", "L", "G", "K"})].w
             IN  << _normalize_number_str(description[j]), Blank(1),
                    Word(CASE unit = "G" -> "GR" [] unit = "K" -> "KG" [] OTHER -> unit, 0) >>

\* re.sub(pattern, " ", desc, flags=re.IGNORECASE) from the token j on, the
\* pattern being \b, a number, \s* and one of the units before \b. The number
\* is the text num as it is spelled or, for the CA pattern, any run of digits.
RECURSIVE re_sub_blank(_, _, _, _)
re_sub_blank(s, j, num, units) ==
    IF j > Len(s) THEN <<>>
    ELSE IF /\ s[j].t = "num" /\ StartsAtBoundary(s, j) /\ UnitEnd(s, j, units) # 0
            /\ IF num.t = "digits" THEN s[j].w = "" ELSE s[j] = num
    THEN <<Blank(1)>> \o re_sub_blank(s, UnitEnd(s, j, units) + 1, num, units)
    ELSE <<s[j]>> \o re_sub_blank(s, j + 1, num, units)

\* re.sub(r"\b(?:CA|CSE)\s*\d+\b", " ", desc, flags=re.IGNORECASE) from j on
RECURSIVE re_sub_case_first(_, _)
re_sub_case_first(s, j) ==
    IF j > Len(s) THEN <<>>
    ELSE IF /\ s[j].t = "word" /\ s[j].w \in {"CA", "CSE"} /\ StartsAtBoundary(s, j)
            /\ j + 1 <= Len(s) /\ s[j + 1].t = "num" /\ s[j + 1].w = "" /\ EndsAtBoundary(s, j + 1)
    THEN <<Blank(1)>> \o re_sub_case_first(s, j + 2)
    ELSE IF /\ s[j].t = "word" /\ s[j].w \in {"CA", "CSE"} /\ StartsAtBoundary(s, j)
            /\ j + 2 <= Len(s) /\ s[j + 1].t = "sp"
            /\ s[j + 2].t = "num" /\ s[j + 2].w = "" /\ EndsAtBoundary(s, j + 2)
    THEN <<Blank(1)>> \o re_sub_case_first(s, j + 3)
    ELSE <<s[j]>> \o re_sub_case_first(s, j + 1)

\* re.sub(r"\s+", " ", desc).strip()
single_spaced(s) == stripped([j \in 1 .. Len(s) |-> IF s[j].t = "sp" THEN Blank(1) ELSE s[j]])

\* clean_description_from_content for a content "<number> <UNIT>": the
\* number as the content spells it, followed by the unit or, for GR and KG,
\* its one-letter form, is replaced by a blank wherever it stands; then the
\* CA and CSE notations; then the blanks are made single.
clean_description_from_content(description, content) ==
    IF description = NoneText \/ description = <<>> THEN description
    ELSE LET units == CASE content[3].w = "GR" -> {"GR", "G"}
                        [] content[3].w = "KG" -> {"KG", "K"}
                        [] OTHER -> {content[3].w}
             without == joined(re_sub_blank(stripped(description), 1,
                                            [content[1] EXCEPT !.w = IF @ = "," THEN "." ELSE @],
                                            units))
             desc == single_spaced(joined(re_sub_case_first(
                        joined(re_sub_blank(without, 1, [content[1] EXCEPT !.t = "digits"],
                                            {"CA", "CSE"})), 1)))
         IN  IF desc # <<>> THEN desc ELSE description

\* force_clean_description: the description and the content found in it
force_clean_description(description) ==
    IF description = NoneText \/ description = <<>>
    THEN [description |-> description, content |-> NoneText]
    ELSE IF extract_content_from_description(stripped(description)) = NoneText
    THEN [description |-> stripped(description), content |-> NoneText]
    ELSE [description |->
            clean_description_from_content(stripped(description),
                extract_content_from_description(stripped(description))),
          content |-> extract_content_from_description(stripped(description))]

\* The contents tried: a number, written whole, with a period or with a
\* comma, then no blank, one or two, then a unit in capitals or in lower
\* case, with or without a blank in front; and None, the empty and the blank
\* text, a word alone, a number alone, "6x330ml" and "12 x 110 g".
ContentValues ==
    {lead \o <<num>> \o gap \o <<Word(unit, low)>> :
        lead \in {<<>>, <<Blank(1)>>},
        num \in {Number(110, "", 0), Number(1, ".", 5), Number(1, ",", 5), Number(40, ".", 0)},
        gap \in {<<>>, <<Blank(1)>>, <<Blank(2)>>},
        unit \in {"G", "GR", "GRAM", "GRAMS", "K", "KG", "KILO", "ML", "L", "LTR", "LITER",
                  "PCS", "CL"},
        low \in {0, 1}}
    \cup {NoneText, <<>>, <<Blank(1)>>, <<Word("ABC", 1)>>, <<Number(110, "", 0)>>,
          <<Number(6, "", 0), Word("X", 1), Number(330, "", 0), Word("ML", 1)>>,
          <<Number(12, "", 0), Blank(1), Word("X", 1), Blank(1), Number(110, "", 0), Blank(1),
            Word("G", 1)>>}

\* The descriptions tried: up to MaxItems parts with one blank between them,
\* each part a name, a content in one of its spellings or a CA or CSE notation.
MaxItems == 3
Descriptions ==
    LET Parts == {<<Word("MILKA", 0)>>, <<Word("ZERO", 1)>>,
                  <<Number(10, "", 0), Word("CA", 0)>>, <<Word("CA", 0), Number(10, "", 0)>>,
                  <<Number(10, "", 0), Blank(1), Word("CSE", 1)>>,
                  <<Number(110, "", 0), Word("G", 0)>>, <<Number(110, "", 0), Blank(1), Word("G", 1)>>,
                  <<Number(110, "", 0), Word("GR", 0)>>, <<Number(110, "", 0), Blank(1), Word("KG", 0)>>,
                  <<Number(110, "", 0), Word("K", 0)>>, <<Number(110, "", 0), Word("ML", 0)>>,
                  <<Number(110, "", 0), Blank(1), Word("L", 0)>>,
                  <<Number(1, ".", 5), Word("L", 0)>>, <<Number(1, ",", 5), Word("L", 0)>>,
                  <<Number(1, ",", 5), Blank(1), Word("L", 1)>>,
                  <<Number(1, ".", 5), Word("KG", 0)>>, <<Number(1, ",", 5), Blank(1), Word("KG", 1)>>,
                  <<Number(40, "", 0), Word("G", 0)>>, <<Number(40, ".", 0), Word("G", 0)>>,
                  <<Number(40, ".", 0), Blank(1), Word("GR", 0)>>}
        Joined[n \in 0 .. MaxItems] ==
            IF n = 0 THEN {<<>>}
            ELSE {IF d = <<>> THEN part ELSE d \o <<Blank(1)>> \o part : d \in Joined[n - 1], part \in Parts}
    IN  {NoneText} \cup UNION {Joined[n] : n \in 0 .. MaxItems}

\* The rows the re-matching is tried on, by EAN code, description and
\* content: a full row, the same product with its EAN between blanks and its
\* description in capitals, the product without EAN, with a blank EAN, another
\* product, a row with nothing in it, and the first product under another EAN.
MatchRows ==
    LET R(e, d, c) == [h \in {"EAN code unit", "Product Description", "Content"} |->
                            CASE h = "EAN code unit" -> e
                              [] h = "Product Description" -> d
                              [] OTHER -> c]
    IN  {R(Str(1, 1), Str(3, 1), Str(4, 1)), R(Str(1, 2), Str(3, 3), None),
         R(None, Str(3, 1), Str(4, 1)), R(Str(-1, 2), Str(3, 4), Str(4, 1)),
         R(Str(2, 1), Str(5, 1), None), R(None, None, None),
         R(Str(2, 1), Str(3, 1), Str(4, 1))}

\* write_rows_to_xlsx sizing an image of width by height pixels for the
\* sheet: the longer side is set to 150 first, and the other side is then
\* computed from the two sides as they are by then. int() of the quotient
\* of positive numbers is its floor.
embedded_size(img_width, img_height) ==
    IF img_width > img_height
    THEN LET w == 150 IN [width |-> w, height |-> (150 * img_height) \div w]
    ELSE LET h == 150 IN [width |-> (150 * img_width) \div h, height |-> h]

\* The sides of the pictures tried, in pixels.
ImageSides == {1, 90, 150, 151, 400}

FunctionInputs ==
    {[pc |-> "input", fn |-> "rematch", arg |-> <<rows, selection>>, out |-> <<>>] :
        rows \in UNION {[1 .. k -> MatchRows] : k \in 0 .. MaxRows},
        selection \in UNION {[1 .. k -> MatchRows] : k \in 1 .. MaxRows}}
    \cup {[pc |-> "input", fn |-> "image", img |-> <<w, h>>, size |-> <<>>] :
            w \in ImageSides, h \in ImageSides}
    \cup {[pc |-> "input", fn |-> "content", value |-> value, once |-> <<>>, twice |-> <<>>] :
            value \in ContentValues}
    \cup {[pc |-> "input", fn |-> "description", description |-> description,
           cleaned |-> <<>>, content |-> <<>>] : description \in Descriptions}

InitFunctions ==
    /\ file = Absent
    /\ last = NoCall
    /\ run = NoRun
    /\ peeked = NoPeek
    /\ Idle
    /\ NoRow
    /\ offer = NoOffer
    /\ pf = NoProcessFile
    /\ written = <<>>
    /\ ss = InitialSession
    /\ page = NoPage
    /\ ex = Unused
    /\ batch = Unused
    /\ ui \in FunctionInputs

\* process_uploaded_file keeping the rows of the fresh table that the
\* selection names.
FilterSelectedRows ==
    /\ ui.pc = "input" /\ ui.fn = "rematch"
    /\ ui' = [ui EXCEPT !.pc = "output", !.out = Rematched(ui.arg[1], ui.arg[2])]
    /\ UNCHANGED <<allocVars, mathVars, pipeVars, writeVars, appVars, ex, batch>>

\* write_rows_to_xlsx embedding one image.
AddImage ==
    /\ ui.pc = "input" /\ ui.fn = "image"
    /\ ui' = [ui EXCEPT !.pc = "output", !.size = embedded_size(ui.img[1], ui.img[2])]
    /\ UNCHANGED <<allocVars, mathVars, pipeVars, writeVars, appVars, ex, batch>>

\* normalize_content on a value, and on what it returned
NormalizeContent ==
    /\ ui.pc = "input" /\ ui.fn = "content"
    /\ ui' = [ui EXCEPT !.pc = "output",
                        !.once = normalize_content(ui.value),
                        !.twice = normalize_content(normalize_content(ui.value))]
    /\ UNCHANGED <<allocVars, mathVars, pipeVars, writeVars, appVars, ex, batch>>

\* force_clean_description on a description
ForceCleanDescription ==
    /\ ui.pc = "input" /\ ui.fn = "description"
    /\ ui' = [ui EXCEPT !.pc = "output",
                        !.cleaned = force_clean_description(ui.description).description,
                        !.content = force_clean_description(ui.description).content]
    /\ UNCHANGED <<allocVars, mathVars, pipeVars, writeVars, appVars, ex, batch>>

NextFunctions ==
    \/ FilterSelectedRows
    \/ AddImage
    \/ NormalizeContent
    \/ ForceCleanDescription

SpecFunctions == InitFunctions /\ [][NextFunctions]_vars

(* C26: the rows of the first run are found again in the fresh table in    *)
(* tiers. When the selection holds one or more EAN codes that are not      *)
(* empty, the rows kept are those whose EAN code is one of them, and the   *)
(* description is not consulted; otherwise the rows kept are those whose   *)
(* normalized description and content are those of a selected row. Only    *)
(* when the tier applied keeps no row are the first rows of the fresh      *)
(* table taken, as many as the selection has; the result is never empty    *)
(* when the fresh table is not.                                            *)
C26_ReassociationTiers ==
    (ui.pc = "output" /\ ui.fn = "rematch") =>
        LET rows == ui.arg[1]
            sel == ui.arg[2]
            eans == {strip(sel[i]["EAN code unit"]) : i \in 1 .. Len(sel)} \ {None, Str(-1, 1)}
            key(r) == <<_normalize_text(r["Product Description"]), _normalize_text(r["Content"])>>
            applied(r) == IF eans # {} THEN strip(r["EAN code unit"]) \in eans
                          ELSE \E i \in 1 .. Len(sel) : key(sel[i]) = key(r)
            hit == \E i \in 1 .. Len(rows) : applied(rows[i])
        IN  /\ hit => ui.out = SelectSeq(rows, applied)
            /\ ~hit => \E n \in {Len(sel), Len(rows)} :
                            n <= Len(sel) /\ n <= Len(rows) /\ ui.out = SubSeq(rows, 1, n)
            /\ rows # <<>> => ui.out # <<>>

\* The selection holds the product under the EAN 2; the fresh table has an
\* empty row and then the product without EAN. No EAN matches, the
\* description is not tried, and the first row is taken.
C26_Witness ==
    /\ ui.pc = "output" /\ ui.fn = "rematch"
    /\ Len(ui.arg[1]) = 2 /\ Len(ui.arg[2]) = 1
    /\ ui.arg[2][1]["EAN code unit"] = Str(2, 1)
    /\ ui.arg[2][1]["Product Description"] = Str(3, 1)
    /\ ui.arg[1][1]["Product Description"] = None
    /\ ui.arg[1][2]["EAN code unit"] = None
    /\ ui.arg[1][2]["Product Description"] = Str(3, 1)
    /\ ui.arg[1][2]["Content"] = ui.arg[2][1]["Content"]
    /\ ui.out = <<ui.arg[1][1]>>

(* C27: every image embedded by the writer is at most 150 pixels wide and  *)
(* at most 150 pixels high, and its width and height are in the ratio of   *)
(* the original up to the rounding of one side to a whole pixel, whether   *)
(* the original is wider than high, higher than wide or square, and of any *)
(* size.                                                                   *)
C27_ImagesFitTheBox ==
    (ui.pc = "output" /\ ui.fn = "image") =>
        LET w == ui.img[1]
            h == ui.img[2]
            longer == IF w > h THEN w ELSE h
            skew == ui.size.width * h - ui.size.height * w
        IN  /\ ui.size.width <= 150
            /\ ui.size.height <= 150
            /\ skew < longer /\ -skew < longer

(* C22: for every value that is not empty, normalize_content returns a     *)
(* number, one blank and a unit that is one of GR, KG, ML and L in         *)
(* capitals, never a unit outside that set; applied to its own result it   *)
(* returns that result.                                                    *)
C22_ContentIsNumberAndUnit ==
    (/\ ui.pc = "output" /\ ui.fn = "content"
     /\ ui.value # NoneText /\ stripped(ui.value) # <<>>) =>
        /\ Len(ui.once) = 3
        /\ ui.once[1].t = "num"
        /\ ui.once[2] = Blank(1)
        /\ ui.once[3].t = "word" /\ ui.once[3].i = 0
        /\ ui.once[3].w \in {"GR", "KG", "ML", "L"}
        /\ ui.twice = ui.once

\* A content in the text s at the token j: a number at a word boundary, then
\* a unit with or without blanks before it, which read as "<number> <UNIT>"
\* is the content c, however the number and the unit are spelled.
ContentTokenAt(s, j, c) ==
    /\ s[j].t = "num" /\ StartsAtBoundary(s, j)
    /\ UnitEnd(s, j, {"GR", "KG", "ML", "L", "G", "K"}) # 0
    /\ (c # NoneText =>
            /\ s[j].i = c[1].i
            /\ (IF s[j].w = "" THEN 0 ELSE s[j].f) = c[1].f
            /\ s[UnitEnd(s, j, {"GR", "KG", "ML", "L", "G", "K"})].w
                    \in {c[3].w} \cup (IF c[3].w = "GR" THEN {"G"} ELSE {})
                                 \cup (IF c[3].w = "KG" THEN {"K"} ELSE {}))

(* C23: force_clean_description returns the content found in the           *)
(* description in its canonical form, and the description without that     *)
(* content in whatever spelling it had (with or without blank, G for GR, K *)
(* for KG, decimal comma or period) and without any CA or CSE notation; a  *)
(* description without content is returned unchanged with no content.      *)
C23_ContentRemovedFromDescription ==
    (ui.pc = "output" /\ ui.fn = "description" /\ ui.description # NoneText) =>
        LET desc == ui.description
            found == {j \in 1 .. Len(desc) : ContentTokenAt(desc, j, NoneText)}
        IN  /\ found = {} => ui.cleaned = desc /\ ui.content = NoneText
            /\ found # {} =>
                /\ Len(ui.content) = 3 /\ ui.content[2] = Blank(1)
                /\ ui.content[3].w \in {"GR", "KG", "ML", "L"}
                /\ ui.content[1].w \in {"", "."}
                /\ ContentTokenAt(desc, CHOOSE j \in found : \A k \in found : j <= k, ui.content)
                /\ \A j \in 1 .. Len(ui.cleaned) :
                        /\ ~ContentTokenAt(ui.cleaned, j, ui.content)
                        /\ ~(ui.cleaned[j].t = "word" /\ ui.cleaned[j].w \in {"CA", "CSE"})

----------------------------------------------------------------------------
(* The results section with its widgets: the "Select all" checkbox, the    *)
(* table editor and one image uploader per selected row. From one run of   *)
(* the script to the next a widget keeps what the user did to it as long   *)
(* as it is the same widget. Which widget is the same depends on the       *)
(* Streamlit the app runs on, which the repository does not pin: either a  *)
(* widget is known by its key alone, or by its key together with the       *)
(* arguments it is created with (the default of the checkbox, the table    *)
(* given to the editor, the label of the uploader). by_key says which, for *)
(* each kind of widget, and is the same for the whole session. A widget    *)
(* that a run does not create is forgotten.                                *)

\* The positions in the table of the rows that are selected, in order.
Positions(flags) == Pick([i \in 1 .. Len(flags) |-> i], flags, 1)

\* The widgets before the first run, and what the user last asked for each
\* row (intent), which the program does not hold.
NoWidgets(by_key) ==
    [pc |-> "table", by_key |-> by_key,
     checkbox |-> [has |-> FALSE, id |-> "", value |-> FALSE],
     editor |-> [has |-> FALSE, id |-> [rows |-> <<>>, flags |-> <<>>], edits |-> <<>>],
     uploaders |-> [k \in 1 .. MaxRows |-> [has |-> FALSE, id |-> None, file |-> 0]],
     intent |-> <<>>]

\* The session starts with an offer of one or two described products
\* uploaded, validated, its sheet chosen and the department set.
InitTable ==
    /\ file = Absent
    /\ last = NoCall
    /\ run = NoRun
    /\ peeked = NoPeek
    /\ Idle
    /\ NoRow
    /\ \E descriptions \in {<<Text>>, <<Text, Text>>, <<Text, Str(5, 1)>>} :
            offer = [suffix |-> ".xlsx", extraction |-> "ok",
                     rows |-> [i \in 1 .. Len(descriptions) |->
                                [f \in MathFields \cup {"product_description"} |->
                                    IF f = "product_description" THEN descriptions[i] ELSE None]]]
    /\ pf = NoProcessFile
    /\ written = <<>>
    /\ \E dept_type \in Categories :
            ss = [InitialSession EXCEPT
                    !.sheet_info = [n \in {"Sheet1"} |-> [rows |-> 10, cols |-> 5]],
                    !.selected_sheet = "Sheet1",
                    !.file_validated = TRUE,
                    !.last_file_name = "offer.xlsx",
                    !.dept_type = dept_type]
    /\ page = NoPage
    /\ ex = Unused
    /\ batch = Unused
    /\ \E by_key \in [{"checkbox", "editor", "uploader"} -> BOOLEAN] : ui = NoWidgets(by_key)

\* One run of the script from the handler on. res is what the handler's call
\* returned, w the widgets as the user left them, button the button pressed.
\* render_selectable_table: row_selected is reset when it is None or of
\* another length; the checkbox gives back what the user left in it when it
\* is the same widget and all_selected otherwise; the editor is given the
\* table with the flags as they are by then (shown) and gives them back with
\* the user's edits when it is the same widget. render_product_image_uploader:
\* one uploader for each selected row with a description, under the key
\* product_image_<idx> and the description as its label.
TableRun(res, w, button, intent) ==
    \E s \in {store_result(ss, res)} :
    \E n \in {Len(s.df.rows)} :
    \E kept \in {IF s.row_selected.has /\ Len(s.row_selected.flags) = n
                 THEN s.row_selected.flags ELSE [i \in 1 .. n |-> TRUE]} :
    \E all_selected \in {\A i \in 1 .. n : kept[i]} :
    \E checkbox_id \in {IF w.by_key["checkbox"] THEN "key"
                        ELSE IF all_selected THEN "value=True" ELSE "value=False"} :
    \E select_all \in {IF w.checkbox.has /\ w.checkbox.id = checkbox_id
                       THEN w.checkbox.value ELSE all_selected} :
    \E shown \in {IF select_all /\ ~all_selected THEN [i \in 1 .. n |-> TRUE]
                  ELSE IF ~select_all /\ all_selected THEN [i \in 1 .. n |-> FALSE]
                  ELSE kept} :
    \E editor_id \in {IF w.by_key["editor"] THEN [rows |-> <<>>, flags |-> <<>>]
                      ELSE [rows |-> s.df.rows, flags |-> shown]} :
    \E edits \in {IF w.editor.has /\ w.editor.id = editor_id /\ Len(w.editor.edits) = n
                  THEN w.editor.edits ELSE [i \in 1 .. n |-> ""]} :
    \E edited \in {[i \in 1 .. n |-> IF edits[i] = "" THEN shown[i] ELSE edits[i] = "T"]} :
    \E uploaders \in {[k \in 1 .. MaxRows |->
                        IF k <= Len(Positions(edited))
                           /\ Get(s.df.rows[Positions(edited)[k]], "Product Description") # None
                        THEN [has |-> TRUE,
                              id |-> IF w.by_key["uploader"] THEN None
                                     ELSE Get(s.df.rows[Positions(edited)[k]], "Product Description"),
                              file |-> IF /\ w.uploaders[k].has
                                          /\ w.uploaders[k].id =
                                                (IF w.by_key["uploader"] THEN None
                                                 ELSE Get(s.df.rows[Positions(edited)[k]],
                                                          "Product Description"))
                                       THEN w.uploaders[k].file ELSE 0]
                        ELSE [has |-> FALSE, id |-> None, file |-> 0]]} :
    \E out \in {results_section(s, edited, {k - 1 : k \in {j \in 1 .. MaxRows : uploaders[j].file # 0}},
                                button)} :
        /\ s.processed /\ s.df.has
        /\ WithinSpan(res.file)
        /\ file' = res.file
        /\ written' = res.written \o out.written
        /\ ss' = out.ss
        /\ page' = [ran |-> TRUE, error |-> res.error, process_enabled |-> TRUE,
                    invoked |-> button = "process", before |-> ss]
        /\ ui' = [w EXCEPT !.checkbox = [has |-> TRUE, id |-> checkbox_id, value |-> select_all],
                           !.editor = [has |-> TRUE, id |-> editor_id, edits |-> edits],
                           !.uploaders = uploaders,
                           !.intent = intent]
        /\ UNCHANGED <<offer, pf, tmp, last, run, peeked, pc, loc, hist, mathVars, ex, batch>>

\* Process pressed, the call returning a table; the user has asked to leave
\* out no row of it.
ProcessPressed ==
    \E res \in {process_uploaded_file(file, offer, ss.dept_type, FALSE, <<>>, NoFrame, TRUE)} :
        /\ res.success
        /\ TableRun(res, ui, "process", [i \in 1 .. Len(res.df.rows) |-> TRUE])

\* The user ticks or unticks Include in the row i of the editor on the page.
ToggleRow(i) ==
    /\ ss.processed
    /\ i \in 1 .. Len(ss.row_selected.flags)
    /\ TableRun(NotCalled,
                [ui EXCEPT !.editor.edits[i] = IF ss.row_selected.flags[i] THEN "F" ELSE "T"],
                "none",
                [ui.intent EXCEPT ![i] = ~ss.row_selected.flags[i]])

\* The user ticks or unticks "Select all". Ticking it asks for every row;
\* unticking it is not counted as deselecting any row in particular.
ToggleSelectAll ==
    /\ ss.processed
    /\ TableRun(NotCalled, [ui EXCEPT !.checkbox.value = ~ui.checkbox.value], "none",
                [i \in 1 .. Len(ui.intent) |-> ui.intent[i] \/ ~ui.checkbox.value])

\* The user uploads a picture of the product shown in the uploader k; the
\* file is named here by the place of that product in the table.
UploadImage(k) ==
    /\ ss.processed
    /\ ui.uploaders[k].has
    /\ TableRun(NotCalled,
                [ui EXCEPT !.uploaders[k].file = Positions(ss.row_selected.flags)[k]],
                "none", ui.intent)

\* The user presses "Download Excel with Images".
DownloadImagesPressed ==
    /\ ss.processed
    /\ ss.product_images # {}
    /\ TableRun(NotCalled, ui, "with_images", ui.intent)

NextTable ==
    \/ ProcessPressed
    \/ \E i \in 1 .. MaxRows : ToggleRow(i)
    \/ ToggleSelectAll
    \/ \E k \in 1 .. MaxRows : UploadImage(k)
    \/ DownloadImagesPressed

SpecTable == InitTable /\ [][NextTable]_vars

(* C21: after a successful processing the flag of every row is true.       *)
(* Thereafter, whatever rows and "Select all" the user toggles, the rows   *)
(* given to the image step and the rows written by either download are     *)
(* the rows whose flag is true, in the order of the table, and a row the   *)
(* user has deselected stays deselected until the user selects it again.   *)
C21_FlagsRuleImageStepAndDownloads ==
    (ui.pc = "table" /\ ss.processed) =>
        /\ page.invoked => \A i \in 1 .. Len(ss.row_selected.flags) : ss.row_selected.flags[i]
        /\ Len(ss.row_selected.flags) = Len(ss.df.rows)
        /\ ss.selected_df.rows = Pick(ss.df.rows, ss.row_selected.flags, 1)
        /\ \A k \in 1 .. MaxRows :
                ui.uploaders[k].has <=> k <= Len(Positions(ss.row_selected.flags))
        /\ \A b \in 1 .. Len(written) :
                written[b].path \in {"data_only", "with_images"} =>
                    written[b].sheet.data =
                        write_rows_to_xlsx(upper(ss.dept_type), headers_of(ss.dept_type),
                                           Pick(ss.df.rows, ss.row_selected.flags, 1), <<>>).data
        /\ \A i \in 1 .. Len(ui.intent) : ~ui.intent[i] => ~ss.row_selected.flags[i]

(* C30: the picture written at the slot i of the spreadsheet with images   *)
(* is the one the user uploaded for the product that is row i of the       *)
(* table written, never one uploaded for another product, whatever         *)
(* pictures were uploaded and rows toggled before.                         *)
C30_ImagesStayWithTheirProducts ==
    (/\ ui.pc = "table"
     /\ \E b \in 1 .. Len(written) : written[b].path = "with_images") =>
        \A k \in 1 .. MaxRows :
            ui.uploaders[k].file # 0 =>
                /\ (k - 1) \in ss.product_images
                /\ ui.uploaders[k].file = Positions(ss.row_selected.flags)[k]

============================================================================
